---- MODULE Spec2Model ----
(***************************************************************************)
(* Model of the proxy checker (amazon_proxy_test.py, amazon_price_checker  *)
(* .py): the main thread of main(), the check_worker threads, the shared   *)
(* work queue and results queue, the global PROXY_STATS object, the        *)
(* blacklist file and the per-protocol result files.                       *)
(*                                                                         *)
(* Threads interleave at every access to a shared object.  Work a thread   *)
(* does on objects of its own (its session, the network exchange of one    *)
(* endpoint attempt) is taken together with the shared access before it.   *)
(***************************************************************************)
EXTENDS Integers, Sequences, FiniteSets, TLC

(***************************************************************************)
(* Bounds of the model.                                                    *)
(***************************************************************************)
\* longest candidate list a run downloads
MaxProxies == 2
\* largest worker count W passed to main()
MaxWorkers == 2
\* length of TEST_WEBSITES (the code lists five product pages)
NumSites == 2

(***************************************************************************)
(* Proxy (class Proxy) and the target set.                                 *)
(***************************************************************************)
Protocols == {"http", "socks4", "socks5"}

Proxy(protocol, address) == [protocol |-> protocol, address |-> address]

\* Proxy.link, and the proxy_str of filter_blacklisted_proxies and
\* update_blacklist: f"{protocol}://{address}"
Link(proxy) == proxy.protocol \o "://" \o proxy.address

\* address.split(":") for the address lines of the model
AddressParts ==
    [a \in {"10.0.0.1:8080", "10.0.0.2:8080", "10.0.0.3:1080", "10.0.0.4",
            "10.0.0.5:http", ""} |->
        CASE a = "10.0.0.1:8080" -> <<"10.0.0.1", "8080">>
          [] a = "10.0.0.2:8080" -> <<"10.0.0.2", "8080">>
          [] a = "10.0.0.3:1080" -> <<"10.0.0.3", "1080">>
          [] a = "10.0.0.4" -> <<"10.0.0.4">>
          [] a = "10.0.0.5:http" -> <<"10.0.0.5", "http">>
          [] a = "" -> <<"">>]

\* the strings int() accepts among the parts above
Numerals == {"8080", "1080"}

\* Proxy.__init__ raises: IndexError when the address has no ":",
\* ValueError when what follows it is not a number
ProxyRaises(address) ==
    \/ Len(AddressParts[address]) < 2
    \/ AddressParts[address][2] \notin Numerals

ProxyA == Proxy("http", "10.0.0.1:8080")
ProxyB == Proxy("http", "10.0.0.2:8080")
ProxyC == Proxy("socks5", "10.0.0.3:1080")

\* Every entry of TEST_WEBSITES is an Amazon product page.
TEST_WEBSITES == [s \in 1..NumSites |-> "amazon"]

\* the "EXIT" marker cleanup_workers puts on the queue; the queue's other
\* items are proxies, held as their index (from 1) into main's list
EXIT == 0

(***************************************************************************)
(* The network: what session.get gives for a proxy and an endpoint.  A     *)
(* response is an exception (exc names its class) or a status with a page. *)
(* prices lists, in selector order then element order, the numbers the     *)
(* price selectors match, in cents.                                        *)
(***************************************************************************)
Page(captcha, phrase, prices) ==
    [captcha |-> captcha, phrase |-> phrase, prices |-> prices]

Response(exc, status, page) == [exc |-> exc, status |-> status, page |-> page]

RespOK == Response("", 200, Page(FALSE, FALSE, <<1999>>))
Resp503 == Response("", 503, Page(FALSE, FALSE, <<>>))
RespUnavailable == Response("", 200, Page(FALSE, TRUE, <<>>))
RespTimeout == Response("ConnectTimeout", 0, Page(FALSE, FALSE, <<>>))

\* AmazonPriceChecker.__init__: min_price, max_price (in cents)
min_price == 100
max_price == 1000000

\* AmazonPriceChecker._check_availability
CheckAvailability(page) == ~page.phrase

\* _parse_price with the range test made strict
RECURSIVE ParsePriceStrict(_)
ParsePriceStrict(prices) ==
    IF prices = <<>> THEN 0
    ELSE IF min_price < Head(prices) /\ Head(prices) < max_price
         THEN Head(prices)
         ELSE ParsePriceStrict(Tail(prices))

\* _parse_price that gives up at the first match out of range
ParsePriceFirst(prices) ==
    IF prices = <<>> THEN 0
    ELSE IF min_price <= Head(prices) /\ Head(prices) <= max_price
         THEN Head(prices)
         ELSE 0

\* AmazonPriceChecker._parse_price: the first in-range match, 0 for None
RECURSIVE ParsePrice(_)
ParsePrice(prices) ==
    IF prices = <<>> THEN 0
    ELSE IF min_price <= Head(prices) /\ Head(prices) <= max_price
         THEN Head(prices)
         ELSE ParsePrice(Tail(prices))

\* is_price_visible without its availability check
IsPriceVisibleAnyway(resp) ==
    IF resp.exc # "" THEN FALSE
    ELSE IF resp.status # 200 THEN FALSE
    ELSE IF resp.page.captcha THEN FALSE
    ELSE ParsePrice(resp.page.prices) # 0

\* AmazonPriceChecker.is_price_visible on the response of its own GET
IsPriceVisible(resp) ==
    IF resp.exc # "" THEN FALSE
    ELSE IF resp.status # 200 THEN FALSE
    ELSE IF resp.page.captcha THEN FALSE
    ELSE IF ~CheckAvailability(resp.page) THEN FALSE
    ELSE ParsePrice(resp.page.prices) # 0

(***************************************************************************)
(* Inputs of a run: the candidate list the download gives, the stub        *)
(* network, the blacklist file found on disk, the worker count.            *)
(***************************************************************************)
Pool == <<ProxyA, ProxyC>>

\* candidate lists: load_proxies appends protocol by protocol, so a list is
\* grouped by protocol; the same address may be listed twice
CandidateLists ==
    { c \in UNION { [1..n -> 1..Len(Pool)] : n \in 0..MaxProxies } :
        \A k \in 1..(Len(c) - 1) : c[k] <= c[k + 1] }

Candidates(c) == [k \in 1..Len(c) |-> Pool[c[k]]]

Links(ps) == { Link(ps[k]) : k \in 1..Len(ps) }

\* the same response to both GETs of an attempt, at every endpoint
Uniform(resp) == [s \in 1..NumSites |-> <<resp, resp>>]

\* the first endpoint times out, the later ones answer
TimeoutThenOK ==
    [s \in 1..NumSites |->
        IF s = 1 THEN <<RespTimeout, RespTimeout>> ELSE <<RespOK, RespOK>>]

Patterns ==
    {Uniform(RespOK), Uniform(Resp503), Uniform(RespUnavailable), TimeoutThenOK}

\* main(workers, types=["http", "socks4", "socks5"])
Types == <<"http", "socks4", "socks5">>

(***************************************************************************)
(* The blacklist file: its lines in order.  A line is its text without the *)
(* blanks before it, whether blanks come before it, and whether a newline  *)
(* ends it; only the last line of a file can lack the newline.             *)
(***************************************************************************)
Line(text, indent, nl) == [text |-> text, indent |-> indent, nl |-> nl]

\* line.strip()
Strip(line) == line.text

\* f.write(f"{proxy_str}\n") on a file opened with "a": the text goes after
\* the last character of the file
WriteLine(lines, proxy_str) ==
    IF lines # <<>> /\ ~lines[Len(lines)].nl
    THEN [lines EXCEPT ![Len(lines)] =
            Line(lines[Len(lines)].text \o proxy_str, lines[Len(lines)].indent, TRUE)]
    ELSE Append(lines, Line(proxy_str, FALSE, TRUE))

RECURSIVE WriteLines(_, _)
WriteLines(lines, entries) ==
    IF entries = <<>> THEN lines
    ELSE WriteLines(WriteLine(lines, Head(entries)), Tail(entries))

VARIABLES
    remote,           \* the lines the repositories hold, as protocol and
                      \* address, grouped by protocol
    types,            \* the types argument of main()
    failing,          \* the protocols whose download fails
    unwritable,       \* the files that cannot be opened for writing
    found,            \* the blacklist file as the run found it
    log,              \* the direct calls of load_blacklist and
                      \* update_blacklist made so far
    net,              \* link -> endpoint -> <<first GET, second GET>>
    workers,          \* W
    blacklistExists,  \* BLACKLIST_FILE is on disk
    blacklistFile,    \* its lines
    resultFiles,      \* protocol -> lines of <protocol>_checked.txt
    mainPc,           \* position of main()
    proxies,          \* main's list of Proxy objects
    blacklist,        \* the set load_blacklist returned to main
    skipped_count,
    proxy_queue,      \* indices into proxies, and EXIT markers
    callback_queue,
    checked_proxies,
    failed_proxies,
    exitsPut,         \* EXIT markers cleanup_workers has put so far
    total_checked,    \* PROXY_STATS
    by_protocol,
    failure_reasons,
    wpc,              \* position of each check_worker thread
    item,             \* the proxy it holds (0: none)
    site,             \* index into TEST_WEBSITES of its current attempt
    outcome,          \* "success" or the failure reason of that attempt
    tmp,              \* the value its pending += has loaded
    tested,           \* history: check_proxy calls per candidate
    issued,           \* history: completed add_success/add_failure calls
    requests,         \* history: GETs per candidate and endpoint
    verdict,          \* history: what check_proxy returned
    markers,          \* history: EXIT markers each worker took
    opened,           \* history: sessions check_proxy set up, per proxy
    closed            \* history: sessions check_proxy closed, per proxy

mainVars ==
    <<mainPc, proxies, blacklist, skipped_count, checked_proxies,
      failed_proxies, exitsPut>>
runInputs == <<remote, net, workers, types, failing, unwritable, found>>
\* what a run of main() reads and never changes
inputVars == <<runInputs, log>>
fileVars == <<blacklistExists, blacklistFile, resultFiles>>
queueVars == <<proxy_queue, callback_queue>>
statVars == <<total_checked, by_protocol, failure_reasons>>
workerVars == <<wpc, item, site, outcome, tmp>>
historyVars == <<tested, issued, requests, verdict, markers, opened, closed>>

vars ==
    <<inputVars, fileVars, mainVars, queueVars, statVars, workerVars,
      historyVars>>

Workers == 1..workers

Range(q) == { q[k] : k \in 1..Len(q) }

NoTmp == [gen |-> 0, val |-> 0]

\* a dict with no key; DictSet(d, k, v) is d after d[k] = v
EmptyDict == [k \in {} |-> 0]

DictSet(d, k, v) == [x \in DOMAIN d \cup {k} |-> IF x = k THEN v ELSE d[x]]

\* ProxyStats.__init__, the empty queues and files, main() not yet started
InitRun ==
    /\ mainPc = "load_proxies"
    /\ proxies = <<>>
    /\ blacklist = {}
    /\ skipped_count = 0
    /\ proxy_queue = <<>>
    /\ callback_queue = <<>>
    /\ checked_proxies = <<>>
    /\ failed_proxies = <<>>
    /\ exitsPut = 0
    /\ resultFiles = EmptyDict
    /\ total_checked = 0
    /\ by_protocol = EmptyDict
    /\ failure_reasons = EmptyDict
    /\ wpc = [w \in Workers |-> "unstarted"]
    /\ item = [w \in Workers |-> 0]
    /\ site = [w \in Workers |-> 0]
    /\ outcome = [w \in Workers |-> ""]
    /\ tmp = [w \in Workers |-> NoTmp]
    /\ tested = <<>>
    /\ issued = <<>>
    /\ requests = <<>>
    /\ verdict = <<>>
    /\ markers = [w \in Workers |-> 0]
    /\ opened = <<>>
    /\ closed = <<>>
    /\ found = [exists |-> blacklistExists, lines |-> blacklistFile]

\* every requested download succeeds and every file can be written
Healthy ==
    /\ types = Types
    /\ failing = {}
    /\ unwritable = {}

Init ==
    /\ workers \in 1..MaxWorkers
    /\ \E c \in CandidateLists : remote = Candidates(c)
    /\ net \in [Links(remote) -> Patterns]
    /\ \/ blacklistExists = FALSE /\ blacklistFile = <<>>
       \/ blacklistExists = TRUE /\ blacklistFile = <<Line(Link(ProxyC), FALSE, TRUE)>>
    /\ Healthy
    /\ log = <<>>
    /\ InitRun

(***************************************************************************)
(* main(), up to the start of the workers.                                 *)
(***************************************************************************)
\* load_blacklist that keeps the empty lines
LoadBlacklistRaw(lines) == { Strip(lines[k]) : k \in 1..Len(lines) }

\* load_blacklist without the strip() of its lines
LoadBlacklistUnstripped(lines) ==
    { IF lines[k].indent THEN " " \o lines[k].text ELSE lines[k].text :
         k \in 1..Len(lines) } \ {""}

\* load_blacklist: the set of the file's stripped lines that are not empty
LoadBlacklist(lines) == { Strip(lines[k]) : k \in 1..Len(lines) } \ {""}

\* filter_blacklisted_proxies that filters nothing out
FilterBlacklistedNone(ps, bl) == ps

\* filter_blacklisted_proxies: the proxies whose link is not blacklisted
FilterBlacklisted(ps, bl) == SelectSeq(ps, LAMBDA p : Link(p) \notin bl)

\* download_proxy_list that returns the list even when the request failed
DownloadProxyListAlways(protocol) ==
    LET mine == SelectSeq(remote, LAMBDA e : e.protocol = protocol)
    IN  [k \in 1..Len(mine) |-> mine[k].address]

\* download_proxy_list(protocol): the address lines of the protocol's
\* list; [] when PROXY_SOURCES has no such key (the KeyError is caught) or
\* the request fails or answers other than 200
DownloadProxyList(protocol) ==
    IF protocol \notin Protocols \/ protocol \in failing THEN <<>>
    ELSE LET mine == SelectSeq(remote, LAMBDA e : e.protocol = protocol)
         IN  [k \in 1..Len(mine) |-> mine[k].address]

\* load_proxies, one protocol: a Proxy for each line that is not blank
LoadOne(protocol) ==
    LET data == SelectSeq(DownloadProxyList(protocol), LAMBDA a : a # "")
    IN  [k \in 1..Len(data) |-> Proxy(protocol, data[k])]

\* load_proxies(types): protocol by protocol, in the order of types
RECURSIVE LoadAll(_)
LoadAll(ts) ==
    IF ts = <<>> THEN <<>> ELSE LoadOne(Head(ts)) \o LoadAll(Tail(ts))

\* load_proxies does not catch what Proxy.__init__ raises
LoadRaises(ts) ==
    \E k \in 1..Len(LoadAll(ts)) : ProxyRaises(LoadAll(ts)[k].address)

\* main: proxies = load_proxies(types); return if there is none
LoadProxies ==
    /\ mainPc = "load_proxies"
    /\ IF LoadRaises(types)
       THEN /\ mainPc' = "raised"
            /\ UNCHANGED proxies
       ELSE /\ proxies' = LoadAll(types)
            /\ mainPc' = IF proxies' = <<>> THEN "done" ELSE "load_blacklist"
    /\ UNCHANGED <<blacklist, skipped_count, checked_proxies, failed_proxies,
                   exitsPut>>
    /\ UNCHANGED <<inputVars, fileVars, queueVars, statVars, workerVars,
                   historyVars>>

\* main: blacklist = load_blacklist(), which creates a missing file; the
\* error of an open() that fails leaves main()
MainLoadBlacklist ==
    /\ mainPc = "load_blacklist"
    /\ IF ~blacklistExists /\ "blacklist" \in unwritable
       THEN /\ mainPc' = "raised"
            /\ UNCHANGED <<blacklist, blacklistExists, blacklistFile>>
       ELSE /\ blacklist' = IF blacklistExists THEN LoadBlacklist(blacklistFile) ELSE {}
            /\ blacklistExists' = TRUE
            /\ blacklistFile' = IF blacklistExists THEN blacklistFile ELSE <<>>
            /\ mainPc' = "filter"
    /\ UNCHANGED <<proxies, skipped_count, checked_proxies, failed_proxies,
                   exitsPut, resultFiles>>
    /\ UNCHANGED <<inputVars, queueVars, statVars, workerVars, historyVars>>

\* main without its return on an empty list after filtering
MainFilterNoReturn ==
    /\ mainPc = "filter"
    /\ proxies' = FilterBlacklisted(proxies, blacklist)
    /\ skipped_count' = Len(proxies) - Len(proxies')
    /\ mainPc' = "setup"
    /\ UNCHANGED <<blacklist, checked_proxies, failed_proxies, exitsPut>>
    /\ UNCHANGED <<inputVars, fileVars, queueVars, statVars, workerVars,
                   historyVars>>

\* main: filter_blacklisted_proxies; return if nothing is left
MainFilter ==
    /\ mainPc = "filter"
    /\ proxies' = FilterBlacklisted(proxies, blacklist)
    /\ skipped_count' = Len(proxies) - Len(proxies')
    /\ mainPc' = IF proxies' = <<>> THEN "done" ELSE "setup"
    /\ UNCHANGED <<blacklist, checked_proxies, failed_proxies, exitsPut>>
    /\ UNCHANGED <<inputVars, fileVars, queueVars, statVars, workerVars,
                   historyVars>>

\* the orders random.shuffle can leave a list in
Shuffles(ps) ==
    { [k \in 1..Len(ps) |-> ps[f[k]]] :
        f \in { g \in [1..Len(ps) -> 1..Len(ps)] :
                  \A a, b \in 1..Len(ps) : a # b => g[a] # g[b] } }

\* setup_worker_threads: shuffle in place, enqueue every proxy, start W threads
SetupWorkerThreads ==
    /\ mainPc = "setup"
    /\ proxies' \in Shuffles(proxies)
    /\ proxy_queue' = [k \in 1..Len(proxies) |-> k]
    /\ callback_queue' = <<>>
    /\ wpc' = [w \in Workers |-> "get"]
    /\ tested' = [i \in 1..Len(proxies) |-> 0]
    /\ issued' = [i \in 1..Len(proxies) |-> <<>>]
    /\ requests' = [i \in 1..Len(proxies) |-> [s \in 1..NumSites |-> 0]]
    /\ verdict' = [i \in 1..Len(proxies) |-> "none"]
    /\ opened' = [i \in 1..Len(proxies) |-> 0]
    /\ closed' = [i \in 1..Len(proxies) |-> 0]
    /\ mainPc' = "monitor"
    /\ UNCHANGED <<blacklist, skipped_count, checked_proxies, failed_proxies,
                   exitsPut, item, site, outcome, tmp, markers>>
    /\ UNCHANGED <<inputVars, fileVars, statVars>>

(***************************************************************************)
(* check_proxy: one endpoint attempt, and the walk over TEST_WEBSITES.     *)
(***************************************************************************)
\* a pass of the loop body that takes a 200 of its own GET for a success
AttemptFirstOnly(proxy, s) ==
    LET first == net[Link(proxy)][s][1]
    IN  IF first.exc # "" THEN first.exc
        ELSE IF first.status = 200 THEN "success"
        ELSE "HTTP " \o ToString(first.status)

\* what one pass of the loop body reports: "success", or the reason it
\* hands to add_failure
Attempt(proxy, s) ==
    LET first == net[Link(proxy)][s][1]
        second == net[Link(proxy)][s][2]
    IN  IF first.exc # "" THEN first.exc
        ELSE IF first.status = 200
             THEN IF TEST_WEBSITES[s] = "amazon"
                  THEN IF IsPriceVisible(second) THEN "success"
                       ELSE "Price not visible"
                  ELSE "success"
             ELSE "HTTP " \o ToString(first.status)

\* the GETs of a pass that runs the content check whatever the status
GetsAlways(proxy, s) == 2

\* the GETs that pass issues: session.get, then is_price_visible's own
Gets(proxy, s) ==
    LET first == net[Link(proxy)][s][1]
    IN  IF first.exc = "" /\ first.status = 200 /\ TEST_WEBSITES[s] = "amazon"
        THEN 2 ELSE 1

\* the next endpoint at or after s that is not a placeholder
RECURSIVE NextSite(_)
NextSite(s) ==
    IF s > NumSites THEN s
    ELSE IF TEST_WEBSITES[s] = "PLACEHOLDER" THEN NextSite(s + 1)
    ELSE s

\* the loop reaches endpoint s for the proxy worker w holds: past the last
\* endpoint check_proxy returns False and the worker goes back to the
\* queue; otherwise the attempt is made and its add_success/add_failure
\* call begins
TryFrom(w, i, s) ==
    IF NextSite(s) > NumSites
    THEN /\ verdict' = [verdict EXCEPT ![i] = "failure"]
         /\ closed' = [closed EXCEPT ![i] = @ + 1]
         /\ wpc' = [wpc EXCEPT ![w] = "get"]
         /\ item' = [item EXCEPT ![w] = 0]
         /\ site' = [site EXCEPT ![w] = 0]
         /\ outcome' = [outcome EXCEPT ![w] = ""]
         /\ UNCHANGED requests
    ELSE /\ requests' = [requests EXCEPT ![i][NextSite(s)] =
                                @ + Gets(proxies[i], NextSite(s))]
         /\ outcome' = [outcome EXCEPT ![w] = Attempt(proxies[i], NextSite(s))]
         /\ site' = [site EXCEPT ![w] = NextSite(s)]
         /\ item' = [item EXCEPT ![w] = i]
         /\ wpc' = [wpc EXCEPT ![w] = "init"]
         /\ UNCHANGED <<verdict, closed>>

\* after add_success: the loop goes on instead of returning
ReturnSuccessContinue(w, i) == TryFrom(w, i, site[w] + 1)

\* after add_success: return True with the finally clause left out
ReturnSuccessLeak(w, i) ==
    /\ verdict' = [verdict EXCEPT ![i] = "success"]
    /\ wpc' = [wpc EXCEPT ![w] = "put"]
    /\ UNCHANGED <<item, site, outcome, requests, closed>>

\* after add_success: return True, through finally: session.close()
ReturnSuccess(w, i) ==
    /\ verdict' = [verdict EXCEPT ![i] = "success"]
    /\ closed' = [closed EXCEPT ![i] = @ + 1]
    /\ wpc' = [wpc EXCEPT ![w] = "put"]
    /\ UNCHANGED <<item, site, outcome, requests>>

\* after add_failure: on to the next endpoint
AfterFailure(w, i) == TryFrom(w, i, site[w] + 1)

(***************************************************************************)
(* check_worker                                                            *)
(***************************************************************************)
\* queue.Queue.get(): the queue it leaves
QueueRestStale(q) == q

QueueRest(q) == Tail(q)

\* data = proxy_queue.get(): EXIT ends the thread, a proxy enters check_proxy
WorkerGet(w) ==
    /\ wpc[w] = "get"
    /\ proxy_queue # <<>>
    /\ proxy_queue' = QueueRest(proxy_queue)
    /\ IF Head(proxy_queue) = EXIT
       THEN /\ wpc' = [wpc EXCEPT ![w] = "done"]
            /\ markers' = [markers EXCEPT ![w] = @ + 1]
            /\ UNCHANGED <<item, site, outcome, requests, verdict, tested,
                           opened, closed>>
       ELSE /\ tested' = [tested EXCEPT ![Head(proxy_queue)] = @ + 1]
            /\ opened' = [opened EXCEPT ![Head(proxy_queue)] = @ + 1]
            /\ TryFrom(w, Head(proxy_queue), 1)
            /\ UNCHANGED markers
    /\ UNCHANGED <<callback_queue, tmp, issued>>
    /\ UNCHANGED <<inputVars, fileVars, mainVars, statVars>>

\* check_worker putting the proxy twice after check_proxy returned True
WorkerPutTwice(w) ==
    /\ wpc[w] = "put"
    /\ callback_queue' = Append(Append(callback_queue, item[w]), item[w])
    /\ wpc' = [wpc EXCEPT ![w] = "get"]
    /\ item' = [item EXCEPT ![w] = 0]
    /\ site' = [site EXCEPT ![w] = 0]
    /\ outcome' = [outcome EXCEPT ![w] = ""]
    /\ UNCHANGED <<proxy_queue, tmp>>
    /\ UNCHANGED <<inputVars, fileVars, mainVars, statVars, historyVars>>

\* callback_queue.put(data) after check_proxy returned True
WorkerPut(w) ==
    /\ wpc[w] = "put"
    /\ callback_queue' = Append(callback_queue, item[w])
    /\ wpc' = [wpc EXCEPT ![w] = "get"]
    /\ item' = [item EXCEPT ![w] = 0]
    /\ site' = [site EXCEPT ![w] = 0]
    /\ outcome' = [outcome EXCEPT ![w] = ""]
    /\ UNCHANGED <<proxy_queue, tmp>>
    /\ UNCHANGED <<inputVars, fileVars, mainVars, statVars, historyVars>>

(***************************************************************************)
(* ProxyStats.add_success / add_failure, called by worker w for the proxy  *)
(* it holds.  ProxyStats has no lock.  x += 1 is a load and a later store  *)
(* into the object the load was made from, and another thread may run in   *)
(* between; so it may between the membership test of init_protocol (or of  *)
(* failure_reasons) and the assignment that creates the entry.  A thread   *)
(* is taken to run from the store of one statement through the load of the *)
(* next without a switch: the schedules modelled are schedules of the code,*)
(* and every lost update and every overwritten entry the code allows       *)
(* between two threads is among them.                                      *)
(***************************************************************************)
Protocol(w) == proxies[item[w]].protocol

\* add_failure counting under "working"
FirstCounterWorking(w) == "working"

\* the counter the first += of the call targets
FirstCounter(w) == IF outcome[w] = "success" THEN "working" ELSE "failed"

\* the load of self.by_protocol[protocol][counter] += 1: the value, and the
\* dict object (gen) the store will write to
Loaded(stats, protocol, counter) ==
    [gen |-> stats[protocol].gen, val |-> stats[protocol][counter]]

\* the store of that +=; a dict object that by_protocol no longer holds
\* takes the store unseen
Stored(stats, protocol, counter, loaded) ==
    IF stats[protocol].gen = loaded.gen
    THEN [stats EXCEPT ![protocol][counter] = loaded.val + 1]
    ELSE stats

\* the dict object init_protocol creates; gen tells the objects apart
NewCounters(w) == [gen |-> w, checked |-> 0, working |-> 0, failed |-> 0]

\* init_protocol: "if protocol not in self.by_protocol"; when the entry is
\* there, on to the load of the first +=
StatInitProtocol(w) ==
    /\ wpc[w] = "init"
    /\ IF Protocol(w) \in DOMAIN by_protocol
       THEN /\ tmp' = [tmp EXCEPT ![w] =
                         Loaded(by_protocol, Protocol(w), FirstCounter(w))]
            /\ wpc' = [wpc EXCEPT ![w] = "st1"]
       ELSE /\ wpc' = [wpc EXCEPT ![w] = "mk"]
            /\ UNCHANGED tmp
    /\ UNCHANGED <<item, site, outcome>>
    /\ UNCHANGED <<inputVars, fileVars, mainVars, queueVars, statVars,
                   historyVars>>

\* init_protocol: self.by_protocol[protocol] = {...}, then the load of the
\* first +=
StatMakeProtocol(w) ==
    /\ wpc[w] = "mk"
    /\ by_protocol' = DictSet(by_protocol, Protocol(w), NewCounters(w))
    /\ tmp' = [tmp EXCEPT ![w] =
                 Loaded(by_protocol', Protocol(w), FirstCounter(w))]
    /\ wpc' = [wpc EXCEPT ![w] = "st1"]
    /\ UNCHANGED <<total_checked, failure_reasons, item, site, outcome>>
    /\ UNCHANGED <<inputVars, fileVars, mainVars, queueVars, historyVars>>

\* the store of ["working"] += 1 or ["failed"] += 1, then the load of
\* ["checked"] += 1
StoreFirstCounter(w) ==
    /\ wpc[w] = "st1"
    /\ by_protocol' = Stored(by_protocol, Protocol(w), FirstCounter(w), tmp[w])
    /\ tmp' = [tmp EXCEPT ![w] = Loaded(by_protocol', Protocol(w), "checked")]
    /\ wpc' = [wpc EXCEPT ![w] = "st2"]
    /\ UNCHANGED <<total_checked, failure_reasons, item, site, outcome>>
    /\ UNCHANGED <<inputVars, fileVars, mainVars, queueVars, historyVars>>

\* add_success / add_failure without their ["checked"] += 1
StoreCheckedSkipped(w) ==
    /\ wpc[w] = "st2"
    /\ tmp' = [tmp EXCEPT ![w] = [gen |-> 0, val |-> total_checked]]
    /\ wpc' = [wpc EXCEPT ![w] = "st3"]
    /\ UNCHANGED <<by_protocol, total_checked, failure_reasons, item, site,
                   outcome>>
    /\ UNCHANGED <<inputVars, fileVars, mainVars, queueVars, historyVars>>

\* the store of ["checked"] += 1, then the load of self.total_checked += 1
StoreChecked(w) ==
    /\ wpc[w] = "st2"
    /\ by_protocol' = Stored(by_protocol, Protocol(w), "checked", tmp[w])
    /\ tmp' = [tmp EXCEPT ![w] = [gen |-> 0, val |-> total_checked]]
    /\ wpc' = [wpc EXCEPT ![w] = "st3"]
    /\ UNCHANGED <<total_checked, failure_reasons, item, site, outcome>>
    /\ UNCHANGED <<inputVars, fileVars, mainVars, queueVars, historyVars>>

\* the store of self.total_checked += 1.  It ends add_success, and
\* check_proxy returns True; add_failure goes on to "if reason not in
\* self.failure_reasons" and, when the entry is there, to the load of its +=
StoreTotal(w) ==
    /\ wpc[w] = "st3"
    /\ total_checked' = tmp[w].val + 1
    /\ IF outcome[w] = "success"
       THEN /\ issued' = [issued EXCEPT ![item[w]] = Append(@, "success")]
            /\ tmp' = [tmp EXCEPT ![w] = NoTmp]
            /\ ReturnSuccess(w, item[w])
       ELSE /\ IF outcome[w] \in DOMAIN failure_reasons
               THEN /\ tmp' = [tmp EXCEPT ![w] =
                                 [gen |-> 0, val |-> failure_reasons[outcome[w]]]]
                    /\ wpc' = [wpc EXCEPT ![w] = "st4"]
               ELSE /\ tmp' = [tmp EXCEPT ![w] = NoTmp]
                    /\ wpc' = [wpc EXCEPT ![w] = "rmk"]
            /\ UNCHANGED <<item, site, outcome, issued, requests, verdict,
                           closed>>
    /\ UNCHANGED <<by_protocol, failure_reasons, tested, markers, opened>>
    /\ UNCHANGED <<inputVars, fileVars, mainVars, queueVars>>

\* add_failure: self.failure_reasons[reason] = 0, then the load of its +=
StatMakeReason(w) ==
    /\ wpc[w] = "rmk"
    /\ failure_reasons' = DictSet(failure_reasons, outcome[w], 0)
    /\ tmp' = [tmp EXCEPT ![w] = [gen |-> 0, val |-> 0]]
    /\ wpc' = [wpc EXCEPT ![w] = "st4"]
    /\ UNCHANGED <<total_checked, by_protocol, item, site, outcome>>
    /\ UNCHANGED <<inputVars, fileVars, mainVars, queueVars, historyVars>>

\* the store of self.failure_reasons[reason] += 1.  It ends add_failure,
\* and check_proxy goes on to the next endpoint
StoreReason(w) ==
    /\ wpc[w] = "st4"
    /\ failure_reasons' = [failure_reasons EXCEPT ![outcome[w]] = tmp[w].val + 1]
    /\ tmp' = [tmp EXCEPT ![w] = NoTmp]
    /\ issued' = [issued EXCEPT ![item[w]] = Append(@, outcome[w])]
    /\ AfterFailure(w, item[w])
    /\ UNCHANGED <<total_checked, by_protocol, tested, markers, opened>>
    /\ UNCHANGED <<inputVars, fileVars, mainVars, queueVars>>

(***************************************************************************)
(* main(), from monitor_progress to the end.                               *)
(***************************************************************************)
\* monitor_progress without its wait on proxy_queue.empty()
MonitorProgressNoWait ==
    /\ mainPc = "monitor"
    /\ mainPc' = "collect"
    /\ UNCHANGED <<proxies, blacklist, skipped_count, checked_proxies,
                   failed_proxies, exitsPut>>
    /\ UNCHANGED <<inputVars, fileVars, queueVars, statVars, workerVars,
                   historyVars>>

\* monitor_progress: returns once proxy_queue.empty()
MonitorProgress ==
    /\ mainPc = "monitor"
    /\ proxy_queue = <<>>
    /\ mainPc' = "collect"
    /\ UNCHANGED <<proxies, blacklist, skipped_count, checked_proxies,
                   failed_proxies, exitsPut>>
    /\ UNCHANGED <<inputVars, fileVars, queueVars, statVars, workerVars,
                   historyVars>>

\* collect_results, the failed list: the proxies whose link no collected
\* proxy has
FailedOf(ps, checked) ==
    SelectSeq([k \in 1..Len(ps) |-> k],
              LAMBDA i : Link(ps[i]) \notin { Link(ps[checked[k]]) : k \in 1..Len(checked) })

\* collect_results: one pass of "while not callback_queue.empty()", and
\* after the last one the failed list
CollectResults ==
    /\ mainPc = "collect"
    /\ IF callback_queue # <<>>
       THEN /\ checked_proxies' = Append(checked_proxies, Head(callback_queue))
            /\ callback_queue' = QueueRest(callback_queue)
            /\ UNCHANGED <<mainPc, failed_proxies>>
       ELSE /\ failed_proxies' = FailedOf(proxies, checked_proxies)
            /\ mainPc' = "update_blacklist"
            /\ UNCHANGED <<checked_proxies, callback_queue>>
    /\ UNCHANGED <<proxies, blacklist, skipped_count, exitsPut,
                   proxy_queue>>
    /\ UNCHANGED <<inputVars, fileVars, statVars, workerVars, historyVars>>

\* update_blacklist: the lines it appends, one per failed proxy whose link
\* the file as just re-read does not hold
NewEntries(ps, failed, current) ==
    SelectSeq([k \in 1..Len(failed) |-> Link(ps[failed[k]])],
              LAMBDA l : l \notin current)

\* update_blacklist(failed): the file it leaves; load_blacklist has
\* created a missing file before the file is opened with "a"
UpdatedFile(exists, lines, ps, failed) ==
    LET current == IF exists THEN lines ELSE <<>>
    IN  WriteLines(current, NewEntries(ps, failed, LoadBlacklist(current)))

\* main: update_blacklist(failed_proxies); the error of an open() that
\* fails leaves main()
UpdateBlacklist ==
    /\ mainPc = "update_blacklist"
    /\ IF "blacklist" \in unwritable
       THEN /\ mainPc' = "raised"
            /\ UNCHANGED <<blacklistExists, blacklistFile>>
       ELSE /\ blacklistExists' = TRUE
            /\ blacklistFile' =
                 UpdatedFile(blacklistExists, blacklistFile, proxies, failed_proxies)
            /\ mainPc' = "save_results"
    /\ UNCHANGED <<proxies, blacklist, skipped_count, checked_proxies,
                   failed_proxies, exitsPut, resultFiles>>
    /\ UNCHANGED <<inputVars, queueVars, statVars, workerVars, historyVars>>

\* organize_and_save_results: the addresses of the working proxies of one
\* protocol, in the order they were collected
AddressesOf(ps, checked, protocol) ==
    LET mine == SelectSeq(checked, LAMBDA i : ps[i].protocol = protocol)
    IN  [k \in 1..Len(mine) |-> ps[mine[k]].address]

\* "\n".join(proxy_list) as the lines of a file: the last line has no
\* newline after it
Joined(list) == [k \in 1..Len(list) |-> Line(list[k], FALSE, k < Len(list))]

\* the addresses read back from a file's lines
Texts(lines) == [k \in 1..Len(lines) |-> lines[k].text]

\* the files of organize_and_save_results opened with "a+" in place of "w+"
SavedFilesAppend(files, ps, checked, ts) ==
    [p \in DOMAIN files \cup Range(ts) |->
        IF p \in Range(ts)
        THEN IF p \in DOMAIN files
             THEN WriteLines(files[p], AddressesOf(ps, checked, p))
             ELSE Joined(AddressesOf(ps, checked, p))
        ELSE files[p]]

\* organize_and_save_results: each <protocol>_checked.txt of types is opened
\* with "w+" and gets the joined addresses; the other files stay
SavedFiles(files, ps, checked, ts) ==
    [p \in DOMAIN files \cup Range(ts) |->
        IF p \in Range(ts)
        THEN Joined(AddressesOf(ps, checked, p))
        ELSE files[p]]

\* main: organize_and_save_results(checked_proxies, types), one file for
\* each name in types; the error of an open() that fails leaves main()
OrganizeAndSaveResults ==
    /\ mainPc = "save_results"
    /\ IF "results" \in unwritable
       THEN /\ mainPc' = "raised"
            /\ UNCHANGED resultFiles
       ELSE /\ resultFiles' =
                 SavedFiles(resultFiles, proxies, checked_proxies, types)
            /\ mainPc' = "cleanup"
    /\ UNCHANGED <<proxies, blacklist, skipped_count, checked_proxies,
                   failed_proxies, exitsPut, blacklistExists,
                   blacklistFile>>
    /\ UNCHANGED <<inputVars, queueVars, statVars, workerVars, historyVars>>

\* cleanup_workers that puts no EXIT marker
CleanupWorkersNone ==
    /\ mainPc = "cleanup"
    /\ mainPc' = "summary"
    /\ UNCHANGED <<proxies, blacklist, skipped_count, checked_proxies,
                   failed_proxies, callback_queue, proxy_queue, exitsPut>>
    /\ UNCHANGED <<inputVars, fileVars, statVars, workerVars, historyVars>>

\* cleanup_workers with one pass too few in its loop
CleanupWorkersOneShort ==
    /\ mainPc = "cleanup"
    /\ IF exitsPut < workers - 1
       THEN /\ proxy_queue' = Append(proxy_queue, EXIT)
            /\ exitsPut' = exitsPut + 1
            /\ UNCHANGED mainPc
       ELSE /\ mainPc' = "summary"
            /\ UNCHANGED <<proxy_queue, exitsPut>>
    /\ UNCHANGED <<proxies, blacklist, skipped_count, checked_proxies,
                   failed_proxies, callback_queue>>
    /\ UNCHANGED <<inputVars, fileVars, statVars, workerVars, historyVars>>

\* cleanup_workers: one proxy_queue.put("EXIT") of its loop over
\* range(workers), and its return after the last
CleanupWorkers ==
    /\ mainPc = "cleanup"
    /\ IF exitsPut < workers
       THEN /\ proxy_queue' = Append(proxy_queue, EXIT)
            /\ exitsPut' = exitsPut + 1
            /\ UNCHANGED mainPc
       ELSE /\ mainPc' = "summary"
            /\ UNCHANGED <<proxy_queue, exitsPut>>
    /\ UNCHANGED <<proxies, blacklist, skipped_count, checked_proxies,
                   failed_proxies, callback_queue>>
    /\ UNCHANGED <<inputVars, fileVars, statVars, workerVars, historyVars>>

\* PROXY_STATS.display_summary()
DisplaySummary ==
    /\ mainPc = "summary"
    /\ mainPc' = "save_stats"
    /\ UNCHANGED <<proxies, blacklist, skipped_count, checked_proxies,
                   failed_proxies, exitsPut>>
    /\ UNCHANGED <<inputVars, fileVars, queueVars, statVars, workerVars,
                   historyVars>>

\* save_test_results(PROXY_STATS), which reads the statistics again
SaveTestResults ==
    /\ mainPc = "save_stats"
    /\ mainPc' = "done"
    /\ UNCHANGED <<proxies, blacklist, skipped_count, checked_proxies,
                   failed_proxies, exitsPut>>
    /\ UNCHANGED <<inputVars, fileVars, queueVars, statVars, workerVars,
                   historyVars>>

(***************************************************************************)
(* The threads.                                                            *)
(***************************************************************************)
Main ==
    \/ LoadProxies
    \/ MainLoadBlacklist
    \/ MainFilter
    \/ SetupWorkerThreads
    \/ MonitorProgress
    \/ CollectResults
    \/ UpdateBlacklist
    \/ OrganizeAndSaveResults
    \/ CleanupWorkers
    \/ DisplaySummary
    \/ SaveTestResults

Worker(w) ==
    \/ WorkerGet(w)
    \/ StatInitProtocol(w)
    \/ StatMakeProtocol(w)
    \/ StoreFirstCounter(w)
    \/ StoreChecked(w)
    \/ StoreTotal(w)
    \/ StatMakeReason(w)
    \/ StoreReason(w)
    \/ WorkerPut(w)

Next ==
    \/ LoadProxies
    \/ MainLoadBlacklist
    \/ MainFilter
    \/ SetupWorkerThreads
    \/ MonitorProgress
    \/ CollectResults
    \/ UpdateBlacklist
    \/ OrganizeAndSaveResults
    \/ CleanupWorkers
    \/ DisplaySummary
    \/ SaveTestResults
    \/ \E w \in Workers : WorkerGet(w)
    \/ \E w \in Workers : StatInitProtocol(w)
    \/ \E w \in Workers : StatMakeProtocol(w)
    \/ \E w \in Workers : StoreFirstCounter(w)
    \/ \E w \in Workers : StoreChecked(w)
    \/ \E w \in Workers : StoreTotal(w)
    \/ \E w \in Workers : StatMakeReason(w)
    \/ \E w \in Workers : StoreReason(w)
    \/ \E w \in Workers : WorkerPut(w)

Spec == Init /\ [][Next]_vars

(***************************************************************************)
(* Notions the properties share.                                           *)
(***************************************************************************)
Started == mainPc \notin {"load_proxies", "load_blacklist", "filter", "setup"}

Candidate == 1..Len(verdict)

AllExited == \A w \in Workers : wpc[w] = "done"

\* worker w is inside check_proxy
InCheck(w) == wpc[w] \in {"init", "mk", "st1", "st2", "st3", "rmk", "st4"}

\* the whole run is over: main() returned and every thread ended
RunOver == mainPc = "done" /\ Started /\ AllExited

RECURSIVE SumOver(_, _)
SumOver(f, S) ==
    IF S = {} THEN 0
    ELSE LET x == CHOOSE y \in S : TRUE IN f[x] + SumOver(f, S \ {x})

(***************************************************************************)
(* C1: every link update_blacklist appends is the link of a candidate for  *)
(* which check_proxy returned False in the run, and a candidate for which  *)
(* check_proxy returned True is in the working list and not in the         *)
(* blacklist file.  Stated of the finished run.                            *)
(***************************************************************************)
C1_OnlyFailuresBlacklisted ==
    RunOver =>
        /\ \A l \in LoadBlacklist(blacklistFile) \ blacklist :
             \E i \in Candidate : Link(proxies[i]) = l /\ verdict[i] = "failure"
        /\ \A i \in Candidate :
             verdict[i] = "success" =>
                /\ i \in Range(checked_proxies)
                /\ Link(proxies[i]) \notin LoadBlacklist(blacklistFile)

(***************************************************************************)
(* C2: every candidate is either still on the work queue, once and not yet *)
(* taken, or was taken off it once and check_proxy was called on it once;  *)
(* so with the queue drained no candidate is untested.                     *)
(***************************************************************************)
C2_TestedExactlyOnce ==
    Started =>
        \A i \in Candidate :
            \/ /\ tested[i] = 0
               /\ Cardinality({ k \in 1..Len(proxy_queue) : proxy_queue[k] = i }) = 1
            \/ /\ tested[i] = 1
               /\ i \notin Range(proxy_queue)

C2_Witness ==
    /\ Started
    /\ Range(proxy_queue) \cap Candidate = {}
    /\ \A w \in Workers : ~InCheck(w) /\ wpc[w] # "put"
    /\ workers >= 2
    /\ Len(verdict) >= 2
    /\ \A i \in Candidate : tested[i] = 1 /\ verdict[i] # "none"

(***************************************************************************)
(* C3: a candidate whose check_proxy call has returned was reported to     *)
(* PROXY_STATS by exactly one add_success or add_failure call.             *)
(***************************************************************************)
C3_OneReportPerProxy ==
    \A i \in Candidate : verdict[i] # "none" => Len(issued[i]) = 1

(***************************************************************************)
(* The example run of three candidates: proxyA answers 200 with the price  *)
(* $19.99 at every endpoint, proxyB answers HTTP 503, proxyC answers 200   *)
(* with the phrase "currently unavailable".                                *)
(***************************************************************************)
ScenarioNet ==
    [l \in {Link(ProxyA), Link(ProxyB), Link(ProxyC)} |->
        IF l = Link(ProxyA) THEN Uniform(RespOK)
        ELSE IF l = Link(ProxyB) THEN Uniform(Resp503)
        ELSE Uniform(RespUnavailable)]

InitScenario ==
    /\ workers \in 1..MaxWorkers
    /\ remote = <<ProxyA, ProxyB, ProxyC>>
    /\ net = ScenarioNet
    /\ blacklistExists = FALSE
    /\ blacklistFile = <<>>
    /\ Healthy
    /\ log = <<>>
    /\ InitRun

SpecScenario == InitScenario /\ [][Next]_vars

\* the value a dict holds for a key, 0 when it has no such key
Count(d, k) == IF k \in DOMAIN d THEN d[k] ELSE 0

TotalWorking == SumOver([p \in DOMAIN by_protocol |-> by_protocol[p].working],
                        DOMAIN by_protocol)

LinksOf(indices) == { Link(proxies[indices[k]]) : k \in 1..Len(indices) }

(***************************************************************************)
(* C4: the example run ends with working = {proxyA}, failing = {proxyB,    *)
(* proxyC}, total_checked = 3, one working proxy counted, proxyB's failure *)
(* under "HTTP 503" and proxyC's under "content unavailable".              *)
(***************************************************************************)
C4_ExampleRun ==
    RunOver =>
        /\ LinksOf(checked_proxies) = {Link(ProxyA)}
        /\ LinksOf(failed_proxies) = {Link(ProxyB), Link(ProxyC)}
        /\ total_checked = 3
        /\ TotalWorking = 1
        /\ Count(failure_reasons, "HTTP 503") = 1
        /\ Count(failure_reasons, "content unavailable") = 1

(***************************************************************************)
(* The add_success / add_failure calls that have returned, and what the    *)
(* counters hold if none of them lost an update.                           *)
(***************************************************************************)
Calls == { c \in Candidate \X (1..NumSites) : c[2] <= Len(issued[c[1]]) }

\* a call reporting r increments the counter: add_success increments
\* working and checked, add_failure increments failed and checked
Targets(r, counter) ==
    \/ counter = "checked"
    \/ counter = "working" /\ r = "success"
    \/ counter = "failed" /\ r # "success"

\* the calls made for a proxy of the protocol that increment the counter
CallsFor(protocol, counter) ==
    Cardinality({ c \in Calls : /\ proxies[c[1]].protocol = protocol
                                /\ Targets(issued[c[1]][c[2]], counter) })

CallsWith(reason) ==
    Cardinality({ c \in Calls : issued[c[1]][c[2]] = reason })

Counters(protocol) ==
    IF protocol \in DOMAIN by_protocol
    THEN by_protocol[protocol]
    ELSE [gen |-> 0, checked |-> 0, working |-> 0, failed |-> 0]

Reasons == { issued[c[1]][c[2]] : c \in Calls } \ {"success"}

(***************************************************************************)
(* C5: once every worker has ended, total_checked, each protocol's         *)
(* checked / working / failed and each failure_reasons count equal the     *)
(* number of add_success / add_failure calls that targeted them.           *)
(***************************************************************************)
C5_NoLostUpdate ==
    (Started /\ AllExited) =>
        /\ total_checked = Cardinality(Calls)
        /\ \A p \in Protocols :
             /\ Counters(p).checked = CallsFor(p, "checked")
             /\ Counters(p).working = CallsFor(p, "working")
             /\ Counters(p).failed = CallsFor(p, "failed")
        /\ DOMAIN failure_reasons = Reasons
        /\ \A r \in Reasons : failure_reasons[r] = CallsWith(r)

(***************************************************************************)
(* What check_proxy reports for a proxy when nothing else runs: the        *)
(* reports of its endpoint attempts, in order, up to the first success.    *)
(***************************************************************************)
RECURSIVE Reports(_, _)
Reports(proxy, s) ==
    IF NextSite(s) > NumSites THEN <<>>
    ELSE IF Attempt(proxy, NextSite(s)) = "success" THEN <<"success">>
    ELSE <<Attempt(proxy, NextSite(s))>> \o Reports(proxy, NextSite(s) + 1)

Passes(proxy) ==
    Reports(proxy, 1) # <<>> /\ Reports(proxy, 1)[Len(Reports(proxy, 1))] = "success"

\* the statistics of the run in which every report is counted
RefTotal == SumOver([i \in Candidate |-> Len(Reports(proxies[i], 1))], Candidate)

RefCount(protocol, counter) ==
    Cardinality({ c \in Candidate \X (1..NumSites) :
                    /\ c[2] <= Len(Reports(proxies[c[1]], 1))
                    /\ proxies[c[1]].protocol = protocol
                    /\ Targets(Reports(proxies[c[1]], 1)[c[2]], counter) })

RefReason(reason) ==
    Cardinality({ c \in Candidate \X (1..NumSites) :
                    /\ c[2] <= Len(Reports(proxies[c[1]], 1))
                    /\ Reports(proxies[c[1]], 1)[c[2]] = reason })

(***************************************************************************)
(* C6: against a fixed candidate list and a deterministic network, a run   *)
(* with one worker and a run with several end with the same statistics and *)
(* the same working / failing partition.  One run of either kind lets each *)
(* check_proxy call finish before the next thread moves and so ends with   *)
(* the reference values above; the claim is that every run ends with them. *)
(***************************************************************************)
C6_SameResultForAnyW ==
    RunOver =>
        /\ total_checked = RefTotal
        /\ \A p \in Protocols :
             /\ Counters(p).checked = RefCount(p, "checked")
             /\ Counters(p).working = RefCount(p, "working")
             /\ Counters(p).failed = RefCount(p, "failed")
        /\ \A r \in DOMAIN failure_reasons \cup Reasons :
             Count(failure_reasons, r) = RefReason(r)
        /\ LinksOf(checked_proxies) = { Link(proxies[i]) : i \in { j \in Candidate : Passes(proxies[j]) } }
        /\ LinksOf(failed_proxies) = { Link(proxies[i]) : i \in { j \in Candidate : ~Passes(proxies[j]) } }

(***************************************************************************)
(* C7: the two lists collect_results returns hold every scheduled proxy    *)
(* exactly once between them, and nothing else.                            *)
(***************************************************************************)
C7_Partition ==
    (Started /\ mainPc \notin {"monitor", "collect"}) =>
        /\ Range(checked_proxies) \cap Range(failed_proxies) = {}
        /\ Range(checked_proxies) \cup Range(failed_proxies) = Candidate
        /\ Len(checked_proxies) + Len(failed_proxies) = Len(verdict)

(***************************************************************************)
(* C8: no request goes to an endpoint that comes after one that succeeded  *)
(* for the proxy, and check_proxy returns True as soon as add_success has  *)
(* recorded the success.                                                   *)
(***************************************************************************)
C8_ShortCircuit ==
    \A i \in Candidate :
        /\ \A s, t \in 1..NumSites :
             (s < t /\ requests[i][s] > 0 /\ Attempt(proxies[i], s) = "success")
                => requests[i][t] = 0
        /\ \A k \in 1..Len(issued[i]) :
             issued[i][k] = "success" => (k = Len(issued[i]) /\ verdict[i] = "success")

C8_Witness ==
    \E i \in Candidate :
        /\ NumSites >= 2
        /\ verdict[i] = "success"
        /\ Attempt(proxies[i], 1) = "success"
        /\ requests[i][1] = 2
        /\ \A t \in 2..NumSites : requests[i][t] = 0

(***************************************************************************)
(* Runs under fair scheduling: the main thread and every started worker    *)
(* thread keep being scheduled, and a blocking proxy_queue.get() returns   *)
(* once the queue holds an item.  The candidates are proxyA, whose first   *)
(* endpoint times out and whose later ones answer, and proxyC, which       *)
(* answers HTTP 503.                                                       *)
(***************************************************************************)
FairNet(ps) ==
    [l \in Links(ps) |->
        IF l = Link(ProxyA) THEN TimeoutThenOK ELSE Uniform(Resp503)]

InitFair ==
    /\ workers \in 1..MaxWorkers
    /\ remote \in {<<ProxyA>>, <<ProxyA, ProxyC>>}
    /\ net = FairNet(remote)
    /\ blacklistExists = FALSE
    /\ blacklistFile = <<>>
    /\ Healthy
    /\ log = <<>>
    /\ InitRun

FairSpec ==
    /\ InitFair
    /\ [][Next]_vars
    /\ WF_vars(Main)
    /\ \A w \in 1..MaxWorkers : WF_vars(w \in Workers /\ Worker(w))

ExitsQueued == Cardinality({ k \in 1..Len(proxy_queue) : proxy_queue[k] = EXIT })

C9_Markers ==
    /\ exitsPut <= workers
    /\ \A w \in Workers : markers[w] = IF wpc[w] = "done" THEN 1 ELSE 0
    /\ ExitsQueued + SumOver(markers, Workers) = exitsPut
    /\ (Started /\ mainPc \in {"summary", "save_stats", "done"}) => exitsPut = workers
    /\ (mainPc \in {"monitor", "collect", "update_blacklist", "save_results"})
          => exitsPut = 0

(***************************************************************************)
(* C9: cleanup_workers puts exactly W EXIT markers; a worker ends on the   *)
(* one marker it takes and takes no second one; and once cleanup_workers   *)
(* has returned, every worker eventually has ended and no marker is left   *)
(* on the queue.                                                           *)
(***************************************************************************)
C9_EveryWorkerExits ==
    /\ []C9_Markers
    /\ (Started /\ mainPc = "summary") ~> (AllExited /\ proxy_queue = <<>>)

C9_Witness ==
    /\ workers >= 2
    /\ exitsPut = workers
    /\ AllExited
    /\ proxy_queue = <<>>
    /\ \A w \in Workers : markers[w] = 1

(***************************************************************************)
(* C10: once display_summary has read the statistics, no worker is still   *)
(* inside check_proxy, where add_success and add_failure are called.       *)
(***************************************************************************)
C10_StatsReadAfterWorkers ==
    (Started /\ mainPc \in {"save_stats", "done"}) =>
        \A w \in Workers : ~InCheck(w)

(***************************************************************************)
(* load_blacklist and update_blacklist called directly, one call after     *)
(* another, on a blacklist file found in any of several conditions and     *)
(* with any list of failed proxies.  log keeps, for each call, the file    *)
(* before and after it, the list passed and the set returned.              *)
(***************************************************************************)
\* calls made in one behaviour
MaxCalls == 3

File(exists, lines) == [exists |-> exists, lines |-> lines]

\* no file; an empty file; one entry; one entry without the final newline;
\* an indented entry, an empty line and another entry; two entries of which
\* the last lacks the newline; the same entry twice
StoreFiles ==
    { File(FALSE, <<>>),
      File(TRUE, <<>>),
      File(TRUE, <<Line(Link(ProxyA), FALSE, TRUE)>>),
      File(TRUE, <<Line(Link(ProxyA), FALSE, FALSE)>>),
      File(TRUE, <<Line(Link(ProxyA), TRUE, TRUE), Line("", FALSE, TRUE),
                   Line(Link(ProxyC), FALSE, TRUE)>>),
      File(TRUE, <<Line(Link(ProxyC), FALSE, TRUE), Line(Link(ProxyB), FALSE, FALSE)>>),
      File(TRUE, <<Line(Link(ProxyA), FALSE, TRUE), Line(Link(ProxyA), TRUE, TRUE)>>) }

\* the failed lists passed: none, one or two of the three proxies, the same
\* proxy twice included
FailedLists ==
    {<<>>} \cup { <<p>> : p \in {ProxyA, ProxyB, ProxyC} }
           \cup { <<p, q>> : p, q \in {ProxyA, ProxyB, ProxyC} }

InitStore ==
    /\ workers = 1
    /\ remote = <<>>
    /\ net = EmptyDict
    /\ \E f \in StoreFiles :
          /\ blacklistExists = f.exists
          /\ blacklistFile = f.lines
    /\ Healthy
    /\ log = <<>>
    /\ InitRun

Call(op, failed, returned) ==
    [op |-> op, failed |-> failed, returned |-> returned,
     before |-> File(blacklistExists, blacklistFile),
     after |-> File(blacklistExists', blacklistFile')]

\* blacklist = load_blacklist()
CallLoadBlacklist ==
    /\ Len(log) < MaxCalls
    /\ blacklist' = IF blacklistExists THEN LoadBlacklist(blacklistFile) ELSE {}
    /\ blacklistExists' = TRUE
    /\ blacklistFile' = IF blacklistExists THEN blacklistFile ELSE <<>>
    /\ log' = Append(log, Call("load", <<>>, blacklist'))
    /\ UNCHANGED <<mainPc, proxies, skipped_count, checked_proxies,
                   failed_proxies, exitsPut, resultFiles>>
    /\ UNCHANGED <<runInputs, queueVars, statVars, workerVars, historyVars>>

\* update_blacklist(failed)
CallUpdateBlacklist(failed) ==
    /\ Len(log) < MaxCalls
    /\ blacklistExists' = TRUE
    /\ blacklistFile' =
         UpdatedFile(blacklistExists, blacklistFile, failed,
                     [k \in 1..Len(failed) |-> k])
    /\ log' = Append(log, Call("update", failed, {}))
    /\ UNCHANGED <<mainVars, resultFiles>>
    /\ UNCHANGED <<runInputs, queueVars, statVars, workerVars, historyVars>>

NextStore ==
    \/ CallLoadBlacklist
    \/ \E failed \in FailedLists : CallUpdateBlacklist(failed)

SpecStore == InitStore /\ [][NextStore]_vars

\* the entries of a file: its stripped lines, the empty ones left out, in
\* file order
Entries(lines) ==
    SelectSeq([k \in 1..Len(lines) |-> lines[k].text], LAMBDA t : t # "")

NoRepeat(q) == \A a, b \in 1..Len(q) : q[a] = q[b] => a = b

IsPrefix(q, r) == Len(q) <= Len(r) /\ \A k \in 1..Len(q) : r[k] = q[k]

(***************************************************************************)
(* C11: when update_blacklist is called twice in a row with the same       *)
(* failed identities, none of them listed twice, the second call leaves    *)
(* the file as the first left it, and no entry the two calls wrote is in   *)
(* the file twice.                                                         *)
(***************************************************************************)
C11_MergeIdempotent ==
    \A k \in 1..(Len(log) - 1) :
        ( /\ log[k].op = "update"
          /\ log[k + 1].op = "update"
          /\ log[k].failed = log[k + 1].failed
          /\ NoRepeat(log[k].failed) )
        => /\ log[k + 1].after = log[k].after
           /\ Range(Entries(log[k + 1].after.lines)) = Range(Entries(log[k].after.lines))
           /\ NoRepeat(Entries(log[k].before.lines))
                 => NoRepeat(Entries(log[k + 1].after.lines))

(***************************************************************************)
(* C12: a blacklist file that was absent or held no entry twice holds no   *)
(* entry twice after any calls of load_blacklist and update_blacklist,     *)
(* whatever failed lists were passed.                                      *)
(***************************************************************************)
C12_NoDuplicateLine ==
    NoRepeat(Entries(found.lines)) => NoRepeat(Entries(blacklistFile))

(***************************************************************************)
(* C13: update_blacklist leaves the lines the file had in place and adds   *)
(* lines after them; the entries after the call are those before it and    *)
(* the failed identities that were not among them.                         *)
(***************************************************************************)
C13_AppendOnly ==
    \A k \in 1..Len(log) :
        log[k].op = "update" =>
            /\ IsPrefix(log[k].before.lines, log[k].after.lines)
            /\ Range(Entries(log[k].before.lines)) \subseteq Range(Entries(log[k].after.lines))
            /\ Range(Entries(log[k].after.lines)) \ Range(Entries(log[k].before.lines))
                  = Links(log[k].failed) \ Range(Entries(log[k].before.lines))

(***************************************************************************)
(* C14: load_blacklist of a missing file returns the empty set and leaves  *)
(* an empty file; of an existing file it returns the set of its stripped   *)
(* lines that are not empty and leaves the file as it was.                 *)
(***************************************************************************)
C14_LoadBlacklist ==
    \A k \in 1..Len(log) :
        log[k].op = "load" =>
            IF log[k].before.exists
            THEN /\ log[k].returned = Range(Entries(log[k].before.lines))
                 /\ log[k].after = log[k].before
            ELSE /\ log[k].returned = {}
                 /\ log[k].after = File(TRUE, <<>>)

C14_Witness ==
    /\ Len(log) >= 2
    /\ log[1].op = "load"
    /\ log[1].before.exists
    /\ \E a, b \in 1..Len(log[1].before.lines) :
          /\ log[1].before.lines[a].indent
          /\ log[1].before.lines[b].text = ""
    /\ Cardinality(log[1].returned) = 2
    /\ log[2].op = "load"
    /\ log[2].returned = log[1].returned

(***************************************************************************)
(* Runs of main() with one worker on what loading can meet: repositories   *)
(* holding well-formed lines, lines without a port, lines with a port that *)
(* is no number and blank lines; downloads that fail; a types argument     *)
(* that names fewer protocols, or one PROXY_SOURCES does not have; a       *)
(* blacklist file that is absent, names one proxy, or names all three.     *)
(***************************************************************************)
LoadPool ==
    <<ProxyA, ProxyB, Proxy("http", "10.0.0.4"), Proxy("http", "10.0.0.5:http"),
      Proxy("http", ""), ProxyC>>

LoadLists ==
    { c \in UNION { [1..n -> 1..Len(LoadPool)] : n \in 0..MaxProxies } :
        \A k \in 1..(Len(c) - 1) : c[k] <= c[k + 1] }

TypesArgs ==
    {Types, <<"http">>, <<"socks5", "http">>, <<"http", "ftp">>, <<"ftp">>}

InitLoad ==
    /\ workers = 1
    /\ \E c \in LoadLists : remote = [k \in 1..Len(c) |-> LoadPool[c[k]]]
    /\ net = FairNet(remote)
    /\ types \in TypesArgs
    /\ failing \in {{}, {"http"}, Protocols}
    /\ unwritable = {}
    /\ \E f \in { File(FALSE, <<>>),
                  File(TRUE, <<Line(Link(ProxyB), FALSE, TRUE)>>),
                  File(TRUE, <<Line(Link(ProxyA), TRUE, TRUE),
                               Line(Link(ProxyB), FALSE, TRUE),
                               Line(Link(ProxyC), FALSE, TRUE)>>) } :
          /\ blacklistExists = f.exists
          /\ blacklistFile = f.lines
    /\ log = <<>>
    /\ InitRun

SpecLoad == InitLoad /\ [][Next]_vars

NoneStarted == \A w \in Workers : wpc[w] = "unstarted"

\* filter_blacklisted_proxies has returned and nothing has happened since
AfterFilter ==
    \/ mainPc = "setup"
    \/ mainPc = "done" /\ NoneStarted /\ LoadAll(types) # <<>>

\* the k-th smallest member of a set of numbers
Nth(S, k) == CHOOSE n \in S : Cardinality({ m \in S : m <= n }) = k

(***************************************************************************)
(* C15: filter_blacklisted_proxies returns the candidates whose            *)
(* "<protocol>://<address>" is not in the blacklist, in their order, and   *)
(* the number of candidates it removed.                                    *)
(***************************************************************************)
C15_FilterBlacklisted ==
    AfterFilter =>
        LET input == LoadAll(types)
            keep == { k \in 1..Len(input) : Link(input[k]) \notin blacklist }
        IN  /\ Len(proxies) = Cardinality(keep)
            /\ \A j \in 1..Len(proxies) : proxies[j] = input[Nth(keep, j)]
            /\ skipped_count = Cardinality((1..Len(input)) \ keep)
            /\ Len(proxies) + skipped_count = Len(input)

\* the example: blacklist {proxyB}, candidates [proxyA, proxyB]
C15_Witness ==
    /\ mainPc = "setup"
    /\ LoadAll(types) = <<ProxyA, ProxyB>>
    /\ blacklist = {Link(ProxyB)}
    /\ proxies = <<ProxyA>>
    /\ skipped_count = 1

(***************************************************************************)
(* C16: when load_proxies or the filter leaves no candidate, main() has    *)
(* returned: no worker was started, no request was made, the blacklist     *)
(* file has the entries it had, no result file was written; and a worker   *)
(* is only ever started with a candidate to test.                          *)
(***************************************************************************)
C16_EmptyStopsEarly ==
    /\ (proxies = <<>> /\ mainPc \notin {"load_proxies", "raised"}) =>
          /\ mainPc = "done"
          /\ NoneStarted
          /\ requests = <<>>
          /\ tested = <<>>
          /\ proxy_queue = <<>>
          /\ total_checked = 0
          /\ Entries(blacklistFile) = Entries(found.lines)
          /\ resultFiles = EmptyDict
    /\ ~NoneStarted => proxies # <<>>

C16_Witness ==
    /\ mainPc = "done"
    /\ proxies = <<>>
    /\ skipped_count = 2
    /\ NoneStarted
    /\ Len(Entries(blacklistFile)) = 3

\* the lines load_proxies is given that make a Proxy: those of a requested
\* protocol whose download succeeded, not blank
Usable ==
    { k \in 1..Len(remote) :
        /\ remote[k].protocol \in Range(types) \cap Protocols
        /\ remote[k].protocol \notin failing
        /\ remote[k].address # "" }

Malformed == { k \in Usable : ProxyRaises(remote[k].address) }

(***************************************************************************)
(* C17: a malformed address line raises nothing out of load_proxies and    *)
(* makes no Proxy, and the well-formed lines are loaded.                   *)
(***************************************************************************)
C17_MalformedSkipped ==
    /\ mainPc # "raised"
    /\ mainPc = "load_blacklist" =>
          Range(proxies) = { remote[k] : k \in Usable \ Malformed }

(***************************************************************************)
(* C18: when types holds a name that is none of http, socks4, socks5, no   *)
(* worker is started and no proxy is tested.                               *)
(***************************************************************************)
C18_UnsupportedFailsFast ==
    (\E k \in 1..Len(types) : types[k] \notin Protocols) =>
        /\ NoneStarted
        /\ tested = <<>>
        /\ requests = <<>>

(***************************************************************************)
(* C19: a download that fails gives no candidate of its protocol and       *)
(* raises nothing: load_proxies raises only on a malformed line of a       *)
(* download that succeeded, returns the lines of the downloads that        *)
(* succeeded, and main() returns at "No proxies loaded" exactly when there *)
(* is no such line.                                                        *)
(***************************************************************************)
C19_FailedDownload ==
    /\ mainPc = "raised" => Malformed # {}
    /\ mainPc = "load_blacklist" =>
          /\ Range(proxies) = { remote[k] : k \in Usable }
          /\ Len(proxies) = Cardinality(Usable)
    /\ \A k \in 1..Len(proxies) : proxies[k].protocol \notin failing
    /\ (mainPc \notin {"load_proxies", "raised"} /\ Usable = {}) =>
          /\ mainPc = "done"
          /\ proxies = <<>>
          /\ NoneStarted
          /\ blacklistExists = found.exists
    /\ (mainPc \notin {"load_proxies", "raised"} /\ Usable # {}) =>
          (mainPc = "load_blacklist" \/ blacklistExists)

C19_Witness ==
    /\ failing = {"http"}
    /\ types = Types
    /\ \E k \in 1..Len(remote) : remote[k].protocol = "http"
    /\ proxies = <<ProxyC>>
    /\ tested = <<1>>
    /\ verdict # <<"none">>

(***************************************************************************)
(* Runs under fair scheduling in which the blacklist file, or the result   *)
(* files, cannot be opened for writing.                                    *)
(***************************************************************************)
InitDisk ==
    /\ workers \in 1..MaxWorkers
    /\ remote \in {<<ProxyA>>, <<ProxyA, ProxyC>>}
    /\ net = FairNet(remote)
    /\ types = Types
    /\ failing = {}
    /\ unwritable \in {{}, {"blacklist"}, {"results"}}
    /\ blacklistExists = TRUE
    /\ blacklistFile = <<Line(Link(ProxyB), FALSE, TRUE)>>
    /\ log = <<>>
    /\ InitRun

FairSpecDisk ==
    /\ InitDisk
    /\ [][Next]_vars
    /\ WF_vars(Main)
    /\ \A w \in 1..MaxWorkers : WF_vars(w \in Workers /\ Worker(w))

\* the error of the failed write has left main()
Surfaced == mainPc = "raised" /\ ~NoneStarted

\* a write that cannot be made is never passed over
C20_NotSwallowed ==
    /\ "blacklist" \in unwritable =>
          mainPc \notin {"save_results", "cleanup", "summary", "save_stats", "done"}
    /\ "results" \in unwritable =>
          mainPc \notin {"cleanup", "summary", "save_stats", "done"}

(***************************************************************************)
(* C20: when update_blacklist or organize_and_save_results cannot write,   *)
(* the error leaves main() and the run ends: every worker thread           *)
(* eventually terminates.                                                  *)
(***************************************************************************)
C20_FailureEndsRun ==
    /\ []C20_NotSwallowed
    /\ Surfaced ~> AllExited

(***************************************************************************)
(* The page as is_price_visible receives it: pieces of its text, each in   *)
(* lower case with a mark for capital letters in the original, and for     *)
(* each price selector, in list order, the texts of the elements it        *)
(* matches.  A price text is a number (in cents), or commas alone, which   *)
(* the regex matches and float() rejects, or words, which the regex does   *)
(* not match.                                                              *)
(***************************************************************************)
\* selectors in price_selectors (the code lists six)
NumSelectors == 2

Fragment(words, upper) == [words |-> words, upper |-> upper]

\* response.text.lower(), soup.get_text().lower()
Lower(fragment) == fragment.words

unavailable_patterns ==
    {"currently unavailable", "see price in cart", "pricing unavailable",
     "temporarily out of stock"}

ChallengeMarkers == {"captcha", "robot check"}

PriceText(kind, cents) == [kind |-> kind, cents |-> cents]

\* the numbers _parse_price gets from the elements of one selector: an
\* element without a regex match is passed over, one float() rejects is
\* dropped by the except clause
ElementValues(elements) ==
    LET parsed == SelectSeq(elements, LAMBDA t : t.kind = "number")
    IN  [k \in 1..Len(parsed) |-> parsed[k].cents]

RECURSIVE AllValues(_)
AllValues(matches) ==
    IF matches = <<>> THEN <<>>
    ELSE ElementValues(Head(matches)) \o AllValues(Tail(matches))

Body(exc, status, fragments, matches) ==
    [exc |-> exc, status |-> status, fragments |-> fragments, matches |-> matches]

PageOf(body) ==
    Page(\E k \in 1..Len(body.fragments) : Lower(body.fragments[k]) \in ChallengeMarkers,
         \E k \in 1..Len(body.fragments) : Lower(body.fragments[k]) \in unavailable_patterns,
         AllValues(body.matches))

ResponseOf(body) == Response(body.exc, body.status, PageOf(body))

\* how many selectors _parse_price goes through before it returns
RECURSIVE Consulted(_)
Consulted(matches) ==
    IF matches = <<>> THEN 0
    ELSE IF ParsePrice(ElementValues(Head(matches))) # 0 THEN 1
    ELSE 1 + Consulted(Tail(matches))

\* the steps is_price_visible runs before it returns
PriceChecks(resp) ==
    IF resp.exc # "" THEN <<"get">>
    ELSE IF resp.status # 200 THEN <<"get", "status">>
    ELSE IF resp.page.captcha THEN <<"get", "status", "captcha">>
    ELSE IF ~CheckAvailability(resp.page)
         THEN <<"get", "status", "captcha", "availability">>
    ELSE <<"get", "status", "captcha", "availability", "price">>

(***************************************************************************)
(* is_price_visible and _parse_price called on one page.                   *)
(***************************************************************************)
PriceTexts ==
    { PriceText("number", c) :
        c \in {min_price - 1, min_price, max_price, max_price + 1} }
    \cup {PriceText("commas", 0), PriceText("words", 0)}

ElementLists ==
    {<<>>} \cup { <<a>> : a \in PriceTexts } \cup { <<a, b>> : a, b \in PriceTexts }

FragmentLists ==
    { <<>>,
      <<Fragment("in stock", TRUE)>>,
      <<Fragment("captcha", TRUE)>>,
      <<Fragment("robot check", FALSE)>>,
      <<Fragment("currently unavailable", TRUE)>>,
      <<Fragment("in stock", FALSE), Fragment("see price in cart", FALSE)>> }

Bodies ==
    { Body(x[1], x[2], f, m) :
        x \in {<<"", 200>>, <<"", 503>>, <<"ConnectTimeout", 0>>},
        f \in FragmentLists,
        m \in [1..NumSelectors -> ElementLists] }

InitPrice ==
    /\ workers = 1
    /\ remote = <<>>
    /\ net = EmptyDict
    /\ blacklistExists = FALSE
    /\ blacklistFile = <<>>
    /\ Healthy
    /\ \E body \in Bodies : log = <<[op |-> "page", body |-> body]>>
    /\ InitRun

\* is_price_visible(url, session) on the page, and _parse_price(soup)
CallPriceChecker ==
    /\ log[1].op = "page"
    /\ log' = <<[op |-> "visible",
                 body |-> log[1].body,
                 returned |-> IsPriceVisible(ResponseOf(log[1].body)),
                 checks |-> PriceChecks(ResponseOf(log[1].body)),
                 price |-> ParsePrice(PageOf(log[1].body).prices),
                 consulted |-> Consulted(log[1].body.matches)]>>
    /\ UNCHANGED <<runInputs, fileVars, mainVars, queueVars, statVars,
                   workerVars, historyVars>>

NextPrice == CallPriceChecker

SpecPrice == InitPrice /\ [][NextPrice]_vars

Checked == log # <<>> /\ log[1].op = "visible"

\* the price texts of the page that are numbers from 1.00 to 10000.00, by
\* selector and element
Hits(matches) ==
    { h \in (1..Len(matches)) \X (1..2) :
        /\ h[2] <= Len(matches[h[1]])
        /\ matches[h[1]][h[2]].kind = "number"
        /\ matches[h[1]][h[2]].cents >= 100
        /\ matches[h[1]][h[2]].cents <= 1000000 }

FirstHit(matches) ==
    CHOOSE h \in Hits(matches) :
        \A g \in Hits(matches) : h[1] < g[1] \/ (h[1] = g[1] /\ h[2] <= g[2])

(***************************************************************************)
(* C21: a price of exactly 1.00 or exactly 10000.00 is accepted as the     *)
(* price found; 0.99 and 10000.01 are rejected.                            *)
(***************************************************************************)
C21_RangeBoundary ==
    Checked =>
        LET values == Range(AllValues(log[1].body.matches))
        IN  /\ log[1].price \notin {99, 1000001}
            /\ (100 \in values \/ 1000000 \in values) => log[1].price \in {100, 1000000}
            /\ values \subseteq {99, 1000001} => log[1].price = 0
            /\ "price" \in Range(log[1].checks) =>
                  (log[1].returned <=> log[1].price # 0)

C21_Witness ==
    /\ Checked
    /\ AllValues(log[1].body.matches) = <<99, 100, 1000001, 1000000>>
    /\ log[1].price = 100
    /\ log[1].returned

(***************************************************************************)
(* C26: when the page text holds an unavailability phrase, in whatever     *)
(* letter case, is_price_visible returns False although the status is 200  *)
(* and a selector has a price in range, and it does not look for a price.  *)
(***************************************************************************)
C26_UnavailableFirst ==
    Checked =>
        LET body == log[1].body
            phrase == \E k \in 1..Len(body.fragments) :
                         body.fragments[k].words \in unavailable_patterns
        IN  /\ (body.exc = "" /\ body.status = 200 /\ phrase) =>
                  /\ ~log[1].returned
                  /\ "price" \notin Range(log[1].checks)
            /\ "price" \in Range(log[1].checks) => ~phrase

C26_Witness ==
    /\ Checked
    /\ log[1].body.status = 200
    /\ log[1].body.fragments = <<Fragment("currently unavailable", TRUE)>>
    /\ log[1].price = 100
    /\ ~log[1].returned
    /\ log[1].checks = <<"get", "status", "captcha", "availability">>

(***************************************************************************)
(* C27: _parse_price returns the first price text, by selector and then    *)
(* by element, that is a number in range; texts that do not parse or are   *)
(* out of range are passed over, no selector after the accepted one is     *)
(* consulted, and None is returned exactly when no text is in range.       *)
(***************************************************************************)
C27_SelectorOrder ==
    Checked =>
        LET matches == log[1].body.matches
        IN  IF Hits(matches) = {}
            THEN /\ log[1].price = 0
                 /\ log[1].consulted = Len(matches)
            ELSE /\ log[1].price =
                       matches[FirstHit(matches)[1]][FirstHit(matches)[2]].cents
                 /\ log[1].consulted = FirstHit(matches)[1]

C27_Witness ==
    /\ Checked
    /\ NumSelectors >= 2
    /\ log[1].body.matches[1] = <<PriceText("commas", 0), PriceText("number", 99)>>
    /\ log[1].body.matches[2] = <<PriceText("number", 1000001), PriceText("number", 100)>>
    /\ log[1].price = 100
    /\ log[1].consulted = 2

(***************************************************************************)
(* Runs of one worker over one candidate, proxyA, whose endpoints each     *)
(* answer the two GETs of check_proxy in one of the ways below: the        *)
(* session.get of check_proxy first, the session.get of is_price_visible   *)
(* second.                                                                 *)
(***************************************************************************)
Resp404 == Response("", 404, Page(FALSE, FALSE, <<>>))
RespCaptcha == Response("", 200, Page(TRUE, FALSE, <<1999>>))
RespNoPrice == Response("", 200, Page(FALSE, FALSE, <<>>))

ProbePairs ==
    { <<RespOK, RespOK>>, <<Resp503, Resp503>>, <<Resp404, Resp404>>,
      <<RespTimeout, RespTimeout>>, <<RespOK, RespTimeout>>,
      <<RespOK, RespCaptcha>>, <<RespCaptcha, RespOK>>,
      <<RespOK, RespUnavailable>>, <<RespOK, Resp503>>,
      <<RespOK, RespNoPrice>> }

InitProbe ==
    /\ workers = 1
    /\ remote = <<ProxyA>>
    /\ net \in [Links(remote) -> [1..NumSites -> ProbePairs]]
    /\ blacklistExists = FALSE
    /\ blacklistFile = <<>>
    /\ Healthy
    /\ log = <<>>
    /\ InitRun

SpecProbe == InitProbe /\ [][Next]_vars

\* the two responses endpoint s gives candidate i
Pair(i, s) == net[Link(proxies[i])][s]

\* the n-th pass of candidate i over the loop body has reported
Reported(i, n) == i \in DOMAIN issued /\ n \in 1..Len(issued[i])

(***************************************************************************)
(* C22: an exception raised while endpoint s is probed is counted as a     *)
(* failure under the name of its class, and the next endpoint is tried.    *)
(***************************************************************************)
C22_ExceptionReason ==
    \A i \in DOMAIN issued : \A s \in 1..NumSites :
        Reported(i, s) =>
            /\ Pair(i, s)[1].exc # "" => issued[i][s] = Pair(i, s)[1].exc
            /\ (Pair(i, s)[1].exc = "" /\ Pair(i, s)[1].status = 200
                   /\ Pair(i, s)[2].exc # "") =>
                  issued[i][s] = Pair(i, s)[2].exc

\* the part of C22 that holds: an exception of either GET is reported as a
\* failure, the walk goes on, and the worker goes back to the queue
C22_Absorbed ==
    \A i \in DOMAIN issued : \A s \in 1..NumSites :
        (Reported(i, s) /\ (Pair(i, s)[1].exc # "" \/
              (Pair(i, s)[1].status = 200 /\ Pair(i, s)[2].exc # ""))) =>
            /\ issued[i][s] # "success"
            /\ Pair(i, s)[1].exc # "" => issued[i][s] = Pair(i, s)[1].exc
            /\ s < NumSites => requests[i][s + 1] > 0
            /\ s = NumSites => verdict[i] = "failure"
            /\ mainPc # "raised"

(***************************************************************************)
(* C23: a proxy whose endpoints all failed adds one failure reason to      *)
(* failure_reasons, the one of the last endpoint tried.                    *)
(***************************************************************************)
C23_LastReasonOnly ==
    \A i \in DOMAIN verdict :
        verdict[i] = "failure" =>
            LET last == Attempt(proxies[i], NumSites)
            IN  /\ issued[i] = <<last>>
                /\ DOMAIN failure_reasons = {last}
                /\ failure_reasons[last] = 1

(***************************************************************************)
(* C24: a first GET answered with a status other than 200 is recorded as   *)
(* "HTTP <status>", no content GET follows at that endpoint, and the next  *)
(* endpoint is tried; an endpoint is requested only after every endpoint   *)
(* before it in TEST_WEBSITES was requested and reported a failure.        *)
(***************************************************************************)
C24_HttpStatus ==
    \A i \in DOMAIN issued : \A s \in 1..NumSites :
        /\ requests[i][s] > 0 =>
              \A t \in 1..(s - 1) :
                  /\ requests[i][t] > 0
                  /\ Reported(i, t)
                  /\ issued[i][t] # "success"
        /\ (Reported(i, s) /\ Pair(i, s)[1].exc = ""
                /\ Pair(i, s)[1].status # 200) =>
              /\ Pair(i, s)[1].status \in {404, 503}
              /\ issued[i][s] = IF Pair(i, s)[1].status = 503
                                THEN "HTTP 503" ELSE "HTTP 404"
              /\ requests[i][s] = 1
              /\ s < NumSites => requests[i][s + 1] > 0

C24_Witness ==
    \E i \in DOMAIN issued :
        /\ Len(issued[i]) = 2
        /\ issued[i][1] = "HTTP 503"
        /\ requests[i][1] = 1
        /\ requests[i][2] = 2
        /\ issued[i][2] = "success"

(***************************************************************************)
(* C25: a 200 response whose body holds a challenge marker makes the       *)
(* endpoint fail with reason "blocked", whichever of the two GETs it       *)
(* answers.                                                                *)
(***************************************************************************)
C25_Blocked ==
    \A i \in DOMAIN issued : \A s \in 1..NumSites :
        (/\ Reported(i, s)
         /\ Pair(i, s)[1].exc = ""
         /\ Pair(i, s)[1].status = 200
         /\ \/ Pair(i, s)[1].page.captcha
            \/ /\ Pair(i, s)[2].exc = ""
               /\ Pair(i, s)[2].status = 200
               /\ Pair(i, s)[2].page.captcha) =>
            issued[i][s] = "blocked"

\* the part of C25 that holds: a challenge page answering the content GET
\* never gives success
C25_NoSuccess ==
    \A i \in DOMAIN issued : \A s \in 1..NumSites :
        (/\ Reported(i, s)
         /\ Pair(i, s)[1].exc = ""
         /\ Pair(i, s)[1].status = 200
         /\ Pair(i, s)[2].exc = ""
         /\ Pair(i, s)[2].page.captcha) =>
            issued[i][s] = "Price not visible"

(***************************************************************************)
(* C28: check_proxy sets up one session for each proxy it tests and closes *)
(* it once, on the early return of a success as on the return after the    *)
(* last endpoint; the session is open exactly while a worker is inside     *)
(* check_proxy with that proxy, and no GET is issued for a proxy whose     *)
(* session is closed.                                                      *)
(***************************************************************************)
SessionOpen(i) == opened[i] = 1 /\ closed[i] = 0

C28_SessionClosedOnce ==
    /\ [](\A i \in DOMAIN opened :
             /\ opened[i] = tested[i]
             /\ opened[i] <= 1
             /\ closed[i] <= opened[i]
             /\ closed[i] = 1 <=> verdict[i] # "none"
             /\ SessionOpen(i) <=> \E w \in Workers : InCheck(w) /\ item[w] = i)
    /\ [][\A i \in DOMAIN closed :
             (closed[i] > 0 /\ i \in DOMAIN requests') =>
                 requests'[i] = requests[i]]_vars

C28_Witness ==
    \E i \in DOMAIN closed :
        /\ verdict[i] = "success"
        /\ Len(issued[i]) = 2
        /\ issued[i][1] = "ConnectTimeout"
        /\ requests[i][2] = 2
        /\ opened[i] = 1
        /\ closed[i] = 1

(***************************************************************************)
(* C29: the blacklist file is not touched while the pipeline runs:         *)
(* load_blacklist returns before any worker thread is started, and         *)
(* update_blacklist writes the file at a moment when no worker is inside   *)
(* check_proxy.                                                            *)
(***************************************************************************)
C29_NoConcurrentAccess ==
    [][/\ (mainPc = "load_blacklist" /\ mainPc' # mainPc) =>
              \A w \in Workers : wpc[w] = "unstarted"
       /\ (mainPc = "update_blacklist" /\ mainPc' # mainPc) =>
              \A w \in Workers : ~InCheck(w)]_vars

\* the part of C29 that holds: no worker thread runs until the blacklist
\* is loaded and the candidates are filtered
C29_LoadBeforeWorkers ==
    mainPc \in {"load_proxies", "load_blacklist", "filter", "setup"} =>
        \A w \in Workers : wpc[w] = "unstarted"

(***************************************************************************)
(* C30: monitor_progress returns, and results are collected and EXIT       *)
(* markers put, only when the queue holds no proxy; so no EXIT marker is   *)
(* ever ahead of a proxy in the queue, and no worker ends while a proxy is *)
(* still queued.                                                           *)
(***************************************************************************)
NoneQueued == \A k \in 1..Len(proxy_queue) : proxy_queue[k] = EXIT

C30_DrainBeforeExit ==
    /\ (Started /\ mainPc # "monitor") => NoneQueued
    /\ exitsPut > 0 => NoneQueued
    /\ \A k \in 1..Len(proxy_queue) :
          proxy_queue[k] = EXIT =>
              \A j \in k..Len(proxy_queue) : proxy_queue[j] = EXIT
    /\ (\E w \in Workers : wpc[w] = "done") => NoneQueued

C30_Witness ==
    /\ mainPc = "cleanup"
    /\ exitsPut = 1
    /\ proxy_queue = <<EXIT>>
    /\ \E w \in Workers : InCheck(w)
    /\ \E i \in Candidate : verdict[i] = "none"

(***************************************************************************)
(* C31: a proxy whose "<protocol>://<address>" is an entry of the          *)
(* blacklist file as the run found it is never put on proxy_queue and      *)
(* never probed in that run.                                               *)
(***************************************************************************)
Excluded == IF found.exists THEN Range(Entries(found.lines)) ELSE {}

C31_ExcludedNeverProbed ==
    /\ \A k \in 1..Len(proxy_queue) :
          proxy_queue[k] # EXIT => Link(proxies[proxy_queue[k]]) \notin Excluded
    /\ \A i \in DOMAIN tested :
          Link(proxies[i]) \notin Excluded
    /\ \A w \in Workers :
          item[w] # 0 => Link(proxies[item[w]]) \notin Excluded

C31_Witness ==
    /\ Excluded = {Link(ProxyB)}
    /\ LoadAll(types) = <<ProxyA, ProxyB>>
    /\ skipped_count = 1
    /\ proxies = <<ProxyA>>
    /\ tested = <<1>>
    /\ requests[1][1] > 0

(***************************************************************************)
(* Direct calls of organize_and_save_results, one after the other on the   *)
(* same folder, so that a call finds the files the call before it wrote.   *)
(* log holds, for each call, its arguments and the files before and after. *)
(***************************************************************************)
\* calls made in one behaviour
MaxSaves == 2

\* the checked_proxies lists passed: up to two of the three proxies, in any
\* order, the same proxy twice included
WorkingLists ==
    {<<>>} \cup { <<p>> : p \in {ProxyA, ProxyB, ProxyC} }
           \cup { <<p, q>> : p, q \in {ProxyA, ProxyB, ProxyC} }

SaveTypes == {Types, <<"http">>, <<"socks5", "http">>}

InitSave ==
    /\ workers = 1
    /\ remote = <<>>
    /\ net = EmptyDict
    /\ blacklistExists = FALSE
    /\ blacklistFile = <<>>
    /\ Healthy
    /\ log = <<>>
    /\ InitRun

\* organize_and_save_results(checked, ts)
CallOrganizeAndSaveResults(checked, ts) ==
    /\ Len(log) < MaxSaves
    /\ resultFiles' =
         SavedFiles(resultFiles, checked, [k \in 1..Len(checked) |-> k], ts)
    /\ log' = Append(log, [op |-> "save", checked |-> checked, types |-> ts,
                           before |-> resultFiles, after |-> resultFiles'])
    /\ UNCHANGED <<mainVars, blacklistExists, blacklistFile>>
    /\ UNCHANGED <<runInputs, queueVars, statVars, workerVars, historyVars>>

NextSave ==
    \E checked \in WorkingLists, ts \in SaveTypes :
        CallOrganizeAndSaveResults(checked, ts)

SpecSave == InitSave /\ [][NextSave]_vars

\* the addresses of the proxies of a list that have the protocol, in order
OfProtocol(checked, protocol) ==
    LET mine == SelectSeq(checked, LAMBDA x : x.protocol = protocol)
    IN  [k \in 1..Len(mine) |-> mine[k].address]

(***************************************************************************)
(* C32: organize_and_save_results leaves, for each protocol of types, one  *)
(* file whose lines are the addresses of the working proxies of that       *)
(* protocol and nothing else, an empty file when there is none; what the   *)
(* file held before is gone.  Files of other protocols are not touched.    *)
(***************************************************************************)
C32_ResultFiles ==
    \A k \in 1..Len(log) :
        log[k].op = "save" =>
            /\ DOMAIN log[k].after = DOMAIN log[k].before \cup Range(log[k].types)
            /\ \A p \in Range(log[k].types) :
                  /\ Texts(log[k].after[p]) = OfProtocol(log[k].checked, p)
                  /\ OfProtocol(log[k].checked, p) = <<>> => log[k].after[p] = <<>>
                  /\ \A j \in 1..Len(log[k].after[p]) :
                        /\ ~log[k].after[p][j].indent
                        /\ \E x \in Range(log[k].checked) :
                              /\ x.protocol = p
                              /\ x.address = log[k].after[p][j].text
            /\ \A p \in DOMAIN log[k].before \ Range(log[k].types) :
                  log[k].after[p] = log[k].before[p]

\* the second call replaces a file of two addresses by an empty one
C32_Witness ==
    /\ Len(log) = 2
    /\ log[2].types = <<"http">>
    /\ log[2].checked = <<ProxyC>>
    /\ Texts(log[2].before["http"]) = <<ProxyA.address, ProxyB.address>>
    /\ log[2].after["http"] = <<>>
    /\ resultFiles = log[2].after

(***************************************************************************)
(* C33: when add_success and add_failure are called one at a time, then    *)
(* after each call every protocol has checked = working + failed,          *)
(* total_checked is the sum of the protocols' checked counters (and the    *)
(* number of calls made), and the failure_reasons counts add up to the sum *)
(* of the protocols' failed counters.                                      *)
(***************************************************************************)
\* no thread is inside add_success or add_failure
BetweenCalls ==
    \A w \in Workers : wpc[w] \notin {"mk", "st1", "st2", "st3", "rmk", "st4"}

SumChecked ==
    SumOver([p \in DOMAIN by_protocol |-> by_protocol[p].checked], DOMAIN by_protocol)

SumFailed ==
    SumOver([p \in DOMAIN by_protocol |-> by_protocol[p].failed], DOMAIN by_protocol)

C33_CounterSums ==
    BetweenCalls =>
        /\ \A p \in DOMAIN by_protocol :
              by_protocol[p].checked = by_protocol[p].working + by_protocol[p].failed
        /\ total_checked = SumChecked
        /\ total_checked = Cardinality(Calls)
        /\ SumOver(failure_reasons, DOMAIN failure_reasons) = SumFailed

C33_Witness ==
    /\ BetweenCalls
    /\ total_checked = NumSites + 2
    /\ DOMAIN by_protocol = {"http", "socks5"}
    /\ by_protocol["http"].working = 1
    /\ by_protocol["http"].failed = 1
    /\ by_protocol["socks5"].failed = NumSites
    /\ Count(failure_reasons, "ConnectTimeout") = 1
    /\ Count(failure_reasons, "HTTP 503") = NumSites

(***************************************************************************)
(* C34: with one worker or more and a list of candidates that is not       *)
(* empty, when every GET returns or raises, the run under fair scheduling  *)
(* comes to its end: the queue drains and monitor_progress returns, the    *)
(* blacklist file and the result files are written, main() returns, every  *)
(* worker has ended and the queue is empty, and it stays so.               *)
(***************************************************************************)
Completed ==
    /\ mainPc = "done"
    /\ AllExited
    /\ proxy_queue = <<>>
    /\ blacklistExists
    /\ DOMAIN resultFiles = Range(types)
    /\ \A i \in Candidate : verdict[i] # "none"

C34_RunCompletes ==
    /\ (mainPc = "monitor") ~> (mainPc = "collect" /\ proxy_queue = <<>>)
    /\ (mainPc = "monitor") ~> (mainPc = "cleanup" /\ blacklistExists
                                   /\ DOMAIN resultFiles = Range(types))
    /\ <>[]Completed

C34_Witness ==
    /\ Completed
    /\ workers >= 2
    /\ Len(proxies) = 2
    /\ Cardinality({ i \in Candidate : verdict[i] = "success" }) = 1
    /\ Cardinality({ i \in Candidate : verdict[i] = "failure" }) = 1

(***************************************************************************)
(* C35: the statistics count endpoint attempts.  A check_proxy call that   *)
(* succeeds at its k-th endpoint has made k - 1 add_failure calls and then *)
(* one add_success call and has raised total_checked by k; a call that     *)
(* fails at all N endpoints has raised total_checked and the failed        *)
(* counter of the proxy's protocol by N.  (The runs are those of one       *)
(* check_proxy call, so the counters start at 0.)                          *)
(***************************************************************************)
\* the endpoints at which candidate i would succeed
Succeeding(i) == { s \in 1..NumSites : Attempt(proxies[i], s) = "success" }

C35_CountedPerAttempt ==
    \A i \in DOMAIN verdict :
        LET p == proxies[i].protocol
        IN  /\ verdict[i] = "success" =>
                  \E k \in Succeeding(i) :
                      /\ \A s \in 1..(k - 1) : s \notin Succeeding(i)
                      /\ Len(issued[i]) = k
                      /\ \A s \in 1..(k - 1) : issued[i][s] # "success"
                      /\ issued[i][k] = "success"
                      /\ total_checked = k
                      /\ by_protocol[p].checked = k
                      /\ by_protocol[p].failed = k - 1
                      /\ by_protocol[p].working = 1
            /\ verdict[i] = "failure" =>
                  /\ Succeeding(i) = {}
                  /\ Len(issued[i]) = NumSites
                  /\ \A s \in 1..NumSites : issued[i][s] # "success"
                  /\ total_checked = NumSites
                  /\ by_protocol[p].checked = NumSites
                  /\ by_protocol[p].failed = NumSites
                  /\ by_protocol[p].working = 0

C35_Witness ==
    /\ verdict = <<"success">>
    /\ issued[1] = <<"HTTP 404", "success">>
    /\ total_checked = 2
    /\ by_protocol["http"].failed = 1
    /\ by_protocol["http"].working = 1

(***************************************************************************)
(* C36: a proxy is put on callback_queue exactly when check_proxy returned *)
(* True for it, and once at most; check_proxy calls add_success at most    *)
(* once; so once every worker has ended, and if no += on a working counter *)
(* was lost, the working counters add up to the number of proxies put on   *)
(* callback_queue.                                                         *)
(***************************************************************************)
\* the proxies put on callback_queue so far: those collect_results has
\* taken, then those still on the queue
Published == checked_proxies \o callback_queue

\* no += 1 on a working counter was lost
NoLostWorking ==
    \A p \in Protocols : Counters(p).working = CallsFor(p, "working")

C36_PublishedIffSuccess ==
    /\ NoRepeat(Published)
    /\ \A i \in Range(Published) : verdict[i] = "success"
    /\ \A i \in Candidate :
          /\ verdict[i] = "success" =>
                \/ i \in Range(Published)
                \/ \E w \in Workers : wpc[w] = "put" /\ item[w] = i
          /\ Cardinality({ k \in 1..Len(issued[i]) : issued[i][k] = "success" }) <= 1
          /\ verdict[i] = "success" <=>
                (issued[i] # <<>> /\ issued[i][Len(issued[i])] = "success")
    /\ \A w \in Workers :
          wpc[w] = "put" => item[w] \notin Range(Published)
    /\ (Started /\ AllExited /\ NoLostWorking) => TotalWorking = Len(Published)

C36_Witness ==
    /\ Started
    /\ AllExited
    /\ NoLostWorking
    /\ Len(Published) = 2
    /\ callback_queue # <<>>
    /\ TotalWorking = 2

(***************************************************************************)
(* C37: at an Amazon endpoint an attempt succeeds only when the GET of     *)
(* check_proxy answers 200 and the GET of is_price_visible answers 200     *)
(* with a page that has no challenge marker, no unavailability phrase and  *)
(* a price in range.  When the second GET answers another status, a        *)
(* challenge page, a page without a price, or raises, is_price_visible     *)
(* returns False, nothing is raised, and check_proxy records "Price not    *)
(* visible".                                                               *)
(***************************************************************************)
\* the response is a 200 page that shows a price
ShowsPrice(resp) ==
    /\ resp.exc = ""
    /\ resp.status = 200
    /\ ~resp.page.captcha
    /\ ~resp.page.phrase
    /\ \E k \in 1..Len(resp.page.prices) :
          min_price <= resp.page.prices[k] /\ resp.page.prices[k] <= max_price

C37_SecondGetDecides ==
    /\ mainPc # "raised"
    /\ \A i \in DOMAIN issued : \A s \in 1..NumSites :
          (Reported(i, s) /\ TEST_WEBSITES[s] = "amazon") =>
              LET first == Pair(i, s)[1]
                  second == Pair(i, s)[2]
                  connected == first.exc = "" /\ first.status = 200
              IN  /\ issued[i][s] = "success" <=> (connected /\ ShowsPrice(second))
                  /\ connected => requests[i][s] = 2
                  /\ (connected /\ ~ShowsPrice(second)) =>
                        /\ issued[i][s] = "Price not visible"
                        /\ s < NumSites => requests[i][s + 1] > 0
                        /\ s = NumSites => verdict[i] = "failure"

C37_Witness ==
    /\ verdict = <<"success">>
    /\ Pair(1, 1) = <<RespOK, RespTimeout>>
    /\ issued[1] = <<"Price not visible", "success">>
    /\ requests[1] = [s \in 1..NumSites |-> IF s <= 2 THEN 2 ELSE 0]

(***************************************************************************)
(* perform_request_with_anti_bot_measures, called once.  log holds the     *)
(* frame of the call: its arguments, where it is, the session it uses,     *)
(* internal_session, what it sent and how it leaves.  A session is told by *)
(* who made it: the caller, or the call itself through setup_session().    *)
(***************************************************************************)
Session(made, shut) == [made |-> made, closed |-> shut]

NoSession == Session("none", FALSE)

\* method.upper() for the method arguments of the model
Upper(method) ==
    CASE method \in {"GET", "get", "Get"} -> "GET"
      [] method \in {"POST", "post"} -> "POST"
      [] method = "put" -> "PUT"
      [] OTHER -> method

Methods == {"GET", "get", "Get", "POST", "post", "put", "HEAD"}

RequestArgs ==
    [method : Methods, supplied : BOOLEAN,
     resp : {RespOK, Resp503, RespTimeout}]

Frame(args, pc, session, internal_session, sent, exit) ==
    [op |-> "request", args |-> args, pc |-> pc, session |-> session,
     internal_session |-> internal_session, sent |-> sent, exit |-> exit]

InitRequest ==
    /\ workers = 1
    /\ remote = <<>>
    /\ net = EmptyDict
    /\ blacklistExists = FALSE
    /\ blacklistFile = <<>>
    /\ Healthy
    /\ \E args \in RequestArgs :
          log = <<Frame(args, "enter",
                        IF args.supplied THEN Session("caller", FALSE) ELSE NoSession,
                        FALSE, "", "")>>
    /\ InitRun

\* internal_session = False; if session is None: session = setup_session();
\* internal_session = True
RequestEnter ==
    /\ log[1].pc = "enter"
    /\ log' = <<IF log[1].session = NoSession
                THEN [log[1] EXCEPT !.session = Session("call", FALSE),
                                    !.internal_session = TRUE,
                                    !.pc = "try"]
                ELSE [log[1] EXCEPT !.pc = "try"]>>
    /\ UNCHANGED <<runInputs, fileVars, mainVars, queueVars, statVars,
                   workerVars, historyVars>>

\* the try block: session.get or session.post, which returns the response
\* or raises, or the ValueError of a method that is neither
RequestTry ==
    /\ log[1].pc = "try"
    /\ log' = <<IF Upper(log[1].args.method) \notin {"GET", "POST"}
                THEN [log[1] EXCEPT !.exit = "ValueError", !.pc = "finally"]
                ELSE [log[1] EXCEPT
                        !.sent = Upper(log[1].args.method),
                        !.exit = IF log[1].args.resp.exc # ""
                                 THEN log[1].args.resp.exc ELSE "return",
                        !.pc = "finally"]>>
    /\ UNCHANGED <<runInputs, fileVars, mainVars, queueVars, statVars,
                   workerVars, historyVars>>

\* a close placed after the return statement's value is made, not in a
\* finally clause: it runs on the normal return alone
RequestFinallyOnReturn ==
    /\ log[1].pc = "finally"
    /\ log' = <<IF log[1].internal_session /\ log[1].exit = "return"
                THEN [log[1] EXCEPT !.session.closed = TRUE, !.pc = "exit"]
                ELSE [log[1] EXCEPT !.pc = "exit"]>>
    /\ UNCHANGED <<runInputs, fileVars, mainVars, queueVars, statVars,
                   workerVars, historyVars>>

\* finally: if internal_session: session.close()
RequestFinally ==
    /\ log[1].pc = "finally"
    /\ log' = <<IF log[1].internal_session
                THEN [log[1] EXCEPT !.session.closed = TRUE, !.pc = "exit"]
                ELSE [log[1] EXCEPT !.pc = "exit"]>>
    /\ UNCHANGED <<runInputs, fileVars, mainVars, queueVars, statVars,
                   workerVars, historyVars>>

NextRequest ==
    \/ RequestEnter
    \/ RequestTry
    \/ RequestFinally

SpecRequest == InitRequest /\ [][NextRequest]_vars

(***************************************************************************)
(* C38: perform_request_with_anti_bot_measures closes the session it made  *)
(* itself however it leaves (return of a response, exception of the        *)
(* request, ValueError of an unsupported method), and never closes a       *)
(* session the caller passed; the request is sent on an open session.      *)
(***************************************************************************)
C38_SessionOwnership ==
    LET f == log[1]
    IN  /\ f.args.supplied => (f.session = Session("caller", FALSE) /\ ~f.internal_session)
        /\ f.pc \in {"try", "finally"} => (f.session.made # "none" /\ ~f.session.closed)
        /\ f.pc = "exit" =>
              /\ f.exit \in {"return", "ValueError", "ConnectTimeout"}
              /\ f.exit = "ValueError" <=> f.sent = ""
              /\ ~f.args.supplied => f.session = Session("call", TRUE)
              /\ f.args.supplied => f.session = Session("caller", FALSE)

C38_Witness ==
    /\ log[1].pc = "exit"
    /\ log[1].exit = "ValueError"
    /\ ~log[1].args.supplied
    /\ log[1].session = Session("call", TRUE)

====
